---- MODULE Spec2Model ----
(***************************************************************************)
(* A model of gcp-start-stop-fastapi: the name resolver and authorization  *)
(* policy, the error sanitizer, the operation executor in its two delivery *)
(* modes, and the VM directory cache with its refresh.                     *)
(*                                                                         *)
(* Strings the code takes apart (VM names, operation names) are sequences  *)
(* of one-character strings, so that split, startswith, endswith and lower *)
(* are computed the way Python computes them.  Zones are never taken       *)
(* apart and stay plain strings.                                           *)
(***************************************************************************)
EXTENDS Integers, Sequences, FiniteSets, TLC

VARIABLES
    nr,            \* name resolver / policy scratch: inputs and results
    sr,            \* sanitizer scratch: raw texts and the outcomes they give
    req,           \* the executor invocation's arguments
    pc,            \* the executor invocation's position in the code
    loc,           \* the invocation's locals: real_vmname, vanity_vmname, zone
    events,        \* SSE events yielded so far (streaming mode)
    response,      \* what execute_operation_json returned or raised
    audit,         \* rows appended by OperationLogger.log_operation
    extCalls,      \* external commands launched by the invocation
    proc,          \* the external process the invocation is waiting on
    vm_zone_map,   \* VMCache.vm_zone_map, in insertion order
    vm_cache,      \* VMCache.vm_cache (the VMScanner directory)
    last_update,   \* VMCache.last_update
    now,           \* the wall clock, in half hours
    refresh,       \* update_cache coroutines: position and locals of each
    scheduled,     \* refreshes scheduled with asyncio.create_task, not yet run
    cache_file,    \* the snapshot file CACHE_FILE
    obs,           \* history: what lookups and refreshes saw
    operation_events,  \* SSEManager.operation_events[operation_id]
    subscriber,    \* the subscription: SSEManager.stream_events, its position
                   \* and locals, what it delivered, the client's connection
    refresh_task,  \* VMCache.refresh_task: 0 for None, else the task's number
    tasks,         \* the _periodic_refresh tasks created so far
    app,           \* fastserver.lifespan: its position and what it did so far
    first_run,     \* history: the invocation that ran before this one, for
                   \* the comparison of the two delivery modes
    lock_use,      \* history: the latest write of directory state and the
                   \* latest external call of a refresh, and whether
                   \* VMCache.lock was held at each
    attempts,      \* history: what triggered the latest refresh attempt and
                   \* whether the cooldown has passed since
    log_file,      \* the monthly CSV file of OperationLogger: whether it
                   \* exists and its rows; history: the rows it began with
                   \* and whether two calls were ever in progress at once
    writers        \* concurrent log_operation calls on that file: position
                   \* and locals of each

vars == <<nr, sr, req, pc, loc, events, response, audit, extCalls, proc,
          vm_zone_map, vm_cache, last_update, now, refresh, scheduled,
          cache_file, obs, operation_events, subscriber, refresh_task, tasks, app,
          first_run, lock_use, attempts, log_file, writers>>

nameVars == <<nr>>
sanVars == <<sr>>
execVars == <<req, pc, loc, events, response, audit, extCalls, proc>>
cacheVars == <<vm_zone_map, vm_cache, last_update, now, refresh, scheduled,
               cache_file, obs>>
sseVars == <<operation_events, subscriber>>
lifeVars == <<refresh_task, tasks, app>>
modeVars == <<first_run>>
histVars == <<lock_use, attempts>>
logVars == <<log_file, writers>>

-----------------------------------------------------------------------------
(* Bounds of the model.                                                    *)

\* how many domain suffixes an input name may carry
MaxSuffixes == 2
\* how many times in a row a canonicalizer is applied to its own result
MaxApply == 2

-----------------------------------------------------------------------------
(* String literals and string functions.                                   *)

None == "<None>"

s_nlq == <<"n","l","q">>
s_py_server == <<"p","y","-","s","e","r","v","e","r">>
s_guedfocnlq03 == <<"g","u","e","d","f","o","c","n","l","q","0","3">>
s_guedfocdsml01 == <<"g","u","e","d","f","o","c","d","s","m","l","0","1">>
s_guedfocwqa82 == <<"g","u","e","d","f","o","c","w","q","a","8","2">>
s_ibi_systems == <<".","i","b","i",".","s","y","s","t","e","m","s">>
s_dev_tibco_com == <<".","d","e","v",".","t","i","b","c","o",".","c","o","m">>
s_tibco_com == <<".","t","i","b","c","o",".","c","o","m">>
s_local == <<".","l","o","c","a","l">>
s_otherhost == <<"o","t","h","e","r","h","o","s","t">>
s_vm1 == <<"v","m","1">>
s_VM1 == <<"V","M","1">>
s_status == <<"s","t","a","t","u","s">>
s_start == <<"s","t","a","r","t">>
s_stop == <<"s","t","o","p">>
s_suspend == <<"s","u","s","p","e","n","d">>
s_resume == <<"r","e","s","u","m","e">>
s_restart == <<"r","e","s","t","a","r","t">>
s_STOP == <<"S","T","O","P">>
csv_empty ==
    <<>>
csv_one ==
    <<"R","U","N","N","I","N","G","\n">>
csv_two ==
    <<"R","U","N","N","I","N","G",",","e","2","-","m","e","d","i","u","m","\n">>
csv_three ==
    <<"R","U","N","N","I","N","G",",","e","2","-","m","e","d","i","u","m",",",
      "1","0",".","0",".","0",".","2","\n">>
s_unknown ==
    <<"u","n","k","n","o","w","n">>
s_describe ==
    <<"d","e","s","c","r","i","b","e">>

\* str.lower() on one character
LowerChar(c) ==
    CASE c = "A" -> "a" [] c = "B" -> "b" [] c = "C" -> "c" [] c = "D" -> "d"
      [] c = "E" -> "e" [] c = "F" -> "f" [] c = "G" -> "g" [] c = "H" -> "h"
      [] c = "I" -> "i" [] c = "J" -> "j" [] c = "K" -> "k" [] c = "L" -> "l"
      [] c = "M" -> "m" [] c = "N" -> "n" [] c = "O" -> "o" [] c = "P" -> "p"
      [] c = "Q" -> "q" [] c = "R" -> "r" [] c = "S" -> "s" [] c = "T" -> "t"
      [] c = "U" -> "u" [] c = "V" -> "v" [] c = "W" -> "w" [] c = "X" -> "x"
      [] c = "Y" -> "y" [] c = "Z" -> "z"
      [] OTHER -> c

\* str.lower()
Lower(s) == [i \in DOMAIN s |-> LowerChar(s[i])]

\* s.startswith(p)
StartsWith(s, p) == Len(s) >= Len(p) /\ SubSeq(s, 1, Len(p)) = p

\* s.endswith(p)
EndsWith(s, p) == Len(s) >= Len(p) /\ SubSeq(s, Len(s) - Len(p) + 1, Len(s)) = p

\* s.split('.')[0]
SplitFirst(s) ==
    IF \E i \in DOMAIN s : s[i] = "."
    THEN LET first == CHOOSE i \in DOMAIN s :
                          s[i] = "." /\ \A j \in 1..(i - 1) : s[j] # "."
         IN  SubSeq(s, 1, first - 1)
    ELSE s

\* sub in s, for strings
IsSubstring(sub, s) ==
    \E i \in 0..(Len(s) - Len(sub)) : SubSeq(s, i + 1, i + Len(sub)) = sub

\* x in lst, for a Python list
InList(x, lst) == \E i \in DOMAIN lst : lst[i] = x

-----------------------------------------------------------------------------
(* Configuration: vm_operations_handler.py module constants (defaults).    *)

ALLOWED_VMS == <<s_guedfocnlq03, s_guedfocdsml01, s_guedfocwqa82>>

\* a configuration that forgets suspend among the restricted operations
RESTRICTED_OPERATIONS_stop_only == <<s_stop>>

RESTRICTED_OPERATIONS == <<s_stop, s_suspend>>

\* dict items in insertion order
VANITY_TO_HOSTNAME ==
    << [vanity_name |-> s_nlq, real_hostname |-> s_guedfocnlq03],
       [vanity_name |-> s_py_server, real_hostname |-> s_guedfocdsml01] >>

\* VMNameManager.__init__ default
domain_suffixes == <<s_dev_tibco_com, s_ibi_systems, s_tibco_com>>

-----------------------------------------------------------------------------
(* NameResolver: VMOperationsHandler and VMNameManager.                    *)

\* index of the first item of a list that satisfies Test, 0 when none does
FirstIndex(lst, Test(_)) ==
    IF \E i \in DOMAIN lst : Test(lst[i])
    THEN CHOOSE i \in DOMAIN lst : Test(lst[i]) /\ \A j \in 1..(i - 1) : ~Test(lst[j])
    ELSE 0

\* VMOperationsHandler.map_vanity_to_hostname
map_vanity_to_hostname(vmname) ==
    LET base_vmname == SplitFirst(vmname)
        Hit(item) == StartsWith(base_vmname, item.vanity_name)
        k == FirstIndex(VANITY_TO_HOSTNAME, Hit)
    IN  IF k # 0 THEN VANITY_TO_HOSTNAME[k].real_hostname ELSE base_vmname

\* VMOperationsHandler.get_vanity_name
get_vanity_name(vmname) ==
    LET base_vmname == SplitFirst(vmname)
        Hit(item) == \/ base_vmname = item.real_hostname
                     \/ StartsWith(base_vmname, item.vanity_name)
        k == FirstIndex(VANITY_TO_HOSTNAME, Hit)
    IN  IF k # 0 THEN VANITY_TO_HOSTNAME[k].vanity_name \o s_ibi_systems ELSE vmname

\* VMNameManager.clean_vm_name: the first suffix of the list that matches is
\* removed, once
clean_vm_name(vmname) ==
    IF vmname = <<>> THEN vmname
    ELSE LET Hit(suffix) == EndsWith(vmname, suffix)
             k == FirstIndex(domain_suffixes, Hit)
         IN  IF k # 0
             THEN SubSeq(vmname, 1, Len(vmname) - Len(domain_suffixes[k]))
             ELSE vmname

\* VMNameManager.map_vanity_to_hostname
VMNameManager_map_vanity_to_hostname(vmname) ==
    LET cleaned == clean_vm_name(vmname)
        Hit(item) == StartsWith(cleaned, item.vanity_name)
        k == FirstIndex(VANITY_TO_HOSTNAME, Hit)
    IN  IF k # 0 THEN VANITY_TO_HOSTNAME[k].real_hostname ELSE cleaned

\* VMNameManager.get_vanity_name
VMNameManager_get_vanity_name(vmname) ==
    LET cleaned == clean_vm_name(vmname)
        Hit(item) == StartsWith(cleaned, item.vanity_name)
        k == FirstIndex(VANITY_TO_HOSTNAME, Hit)
    IN  IF k # 0 THEN VANITY_TO_HOSTNAME[k].vanity_name \o s_ibi_systems ELSE cleaned

-----------------------------------------------------------------------------
(* AuthorizationPolicy.                                                    *)

\* a mutant of is_vm_allowed_for_operation: the allow-list is consulted with
\* the name as given, not with its canonical form
is_vm_allowed_for_operation_raw_name(vmname, operation) ==
    IF ~InList(Lower(operation), RESTRICTED_OPERATIONS)
    THEN TRUE
    ELSE InList(vmname, ALLOWED_VMS)

\* VMOperationsHandler.is_vm_allowed_for_operation
is_vm_allowed_for_operation(vmname, operation) ==
    IF ~InList(Lower(operation), RESTRICTED_OPERATIONS)
    THEN TRUE
    ELSE LET real_vmname == map_vanity_to_hostname(vmname)
         IN  InList(real_vmname, ALLOWED_VMS)

-----------------------------------------------------------------------------
(* Raw error texts: what the external tool writes to its error stream and  *)
(* what str(e) of an exception reads.                                      *)

\* ERROR: (gcloud.compute.instances.describe) HTTPError 404: The resource 'projects/p1/zones/z1/instances/vm1' was not found
raw_404_resource ==
    <<"E","R","R","O","R",":"," ","(","g","c","l","o","u","d",".","c","o","m",
      "p","u","t","e",".","i","n","s","t","a","n","c","e","s",".","d","e","s",
      "c","r","i","b","e",")"," ","H","T","T","P","E","r","r","o","r"," ","4",
      "0","4",":"," ","T","h","e"," ","r","e","s","o","u","r","c","e"," ","'",
      "p","r","o","j","e","c","t","s","/","p","1","/","z","o","n","e","s","/",
      "z","1","/","i","n","s","t","a","n","c","e","s","/","v","m","1","'"," ",
      "w","a","s"," ","n","o","t"," ","f","o","u","n","d">>

\* HTTPError 404: The resource 'projects/p2/zones/z9/instances/vm1' was not found on 10.0.0.5
raw_404_resource_other ==
    <<"H","T","T","P","E","r","r","o","r"," ","4","0","4",":"," ","T","h","e",
      " ","r","e","s","o","u","r","c","e"," ","'","p","r","o","j","e","c","t",
      "s","/","p","2","/","z","o","n","e","s","/","z","9","/","i","n","s","t",
      "a","n","c","e","s","/","v","m","1","'"," ","w","a","s"," ","n","o","t",
      " ","f","o","u","n","d"," ","o","n"," ","1","0",".","0",".","0",".","5">>

\* HTTPError 404: instances/vm1 was not found
raw_404_path ==
    <<"H","T","T","P","E","r","r","o","r"," ","4","0","4",":"," ","i","n","s",
      "t","a","n","c","e","s","/","v","m","1"," ","w","a","s"," ","n","o","t",
      " ","f","o","u","n","d">>

\* HTTPError 404: it was not found
raw_404_no_instance ==
    <<"H","T","T","P","E","r","r","o","r"," ","4","0","4",":"," ","i","t"," ",
      "w","a","s"," ","n","o","t"," ","f","o","u","n","d">>

\* Required 'compute.instances.stop' permission for 'projects/p1/zones/z1/instances/vm1'
raw_permission ==
    <<"R","e","q","u","i","r","e","d"," ","'","c","o","m","p","u","t","e",".",
      "i","n","s","t","a","n","c","e","s",".","s","t","o","p","'"," ","p","e",
      "r","m","i","s","s","i","o","n"," ","f","o","r"," ","'","p","r","o","j",
      "e","c","t","s","/","p","1","/","z","o","n","e","s","/","z","1","/","i",
      "n","s","t","a","n","c","e","s","/","v","m","1","'">>

\* PERMISSION_DENIED: The resource 'projects/p1/zones/z1/instances/vm1' is locked
raw_permission_resource ==
    <<"P","E","R","M","I","S","S","I","O","N","_","D","E","N","I","E","D",":",
      " ","T","h","e"," ","r","e","s","o","u","r","c","e"," ","'","p","r","o",
      "j","e","c","t","s","/","p","1","/","z","o","n","e","s","/","z","1","/",
      "i","n","s","t","a","n","c","e","s","/","v","m","1","'"," ","i","s"," ",
      "l","o","c","k","e","d">>

\* Request is not Authorized: token abc123
raw_unauthorized ==
    <<"R","e","q","u","e","s","t"," ","i","s"," ","n","o","t"," ","A","u","t",
      "h","o","r","i","z","e","d",":"," ","t","o","k","e","n"," ","a","b","c",
      "1","2","3">>

\* Connection refused by 10.0.0.5
raw_other ==
    <<"C","o","n","n","e","c","t","i","o","n"," ","r","e","f","u","s","e","d",
      " ","b","y"," ","1","0",".","0",".","0",".","5">>

\* The resource 'projects/p1/zones/z1/instances/vm1' is not ready
raw_other_resource ==
    <<"T","h","e"," ","r","e","s","o","u","r","c","e"," ","'","p","r","o","j",
      "e","c","t","s","/","p","1","/","z","o","n","e","s","/","z","1","/","i",
      "n","s","t","a","n","c","e","s","/","v","m","1","'"," ","i","s"," ","n",
      "o","t"," ","r","e","a","d","y">>

\* [Errno 2] No such file or directory: 'gcloud'
raw_launch ==
    <<"[","E","r","r","n","o"," ","2","]"," ","N","o"," ","s","u","c","h"," ",
      "f","i","l","e"," ","o","r"," ","d","i","r","e","c","t","o","r","y",":",
      " ","'","g","c","l","o","u","d","'">>

\* 'utf-8' codec can't decode byte 0xff in position 0: invalid start byte
raw_decode ==
    <<"'","u","t","f","-","8","'"," ","c","o","d","e","c"," ","c","a","n","'",
      "t"," ","d","e","c","o","d","e"," ","b","y","t","e"," ","0","x","f","f",
      " ","i","n"," ","p","o","s","i","t","i","o","n"," ","0",":"," ","i","n",
      "v","a","l","i","d"," ","s","t","a","r","t"," ","b","y","t","e">>

\* Expecting value: line 1 column 1 (char 0)
raw_json ==
    <<"E","x","p","e","c","t","i","n","g"," ","v","a","l","u","e",":"," ","l",
      "i","n","e"," ","1"," ","c","o","l","u","m","n"," ","1"," ","(","c","h",
      "a","r"," ","0",")">>

\* (empty)
raw_empty ==
    <<>>

p_http404 ==
    <<"H","T","T","P","E","r","r","o","r"," ","4","0","4">>

p_was_not_found ==
    <<"w","a","s"," ","n","o","t"," ","f","o","u","n","d">>

p_instances ==
    <<"i","n","s","t","a","n","c","e","s","/">>

p_permission ==
    <<"p","e","r","m","i","s","s","i","o","n">>

p_authorized ==
    <<"a","u","t","h","o","r","i","z","e","d">>

p_the_resource ==
    <<"T","h","e"," ","r","e","s","o","u","r","c","e"," ","'","p","r","o","j",
      "e","c","t","s","/">>

s_the_specified_vm ==
    <<"t","h","e"," ","s","p","e","c","i","f","i","e","d"," ","V","M">>


\* HTTPError 404: instances/vm1 was not found or permission is missing
raw_404_and_permission ==
    <<"H","T","T","P","E","r","r","o","r"," ","4","0","4",":"," ","i","n","s",
      "t","a","n","c","e","s","/","v","m","1"," ","w","a","s"," ","n","o","t",
      " ","f","o","u","n","d"," ","o","r"," ","p","e","r","m","i","s","s","i",
      "o","n"," ","i","s"," ","m","i","s","s","i","n","g">>

RawTexts ==
    << raw_404_resource, raw_404_resource_other, raw_404_path,
       raw_404_no_instance, raw_permission, raw_permission_resource,
       raw_unauthorized, raw_other, raw_other_resource, raw_launch,
       raw_decode, raw_json, raw_empty, raw_404_and_permission >>

RawIds == DOMAIN RawTexts

-----------------------------------------------------------------------------
(* Regular expressions of the handler, computed on the characters.         *)

\* sub occurs in s at position i
OccursAt(sub, s, i) ==
    i >= 1 /\ i + Len(sub) - 1 <= Len(s) /\ SubSeq(s, i, i + Len(sub) - 1) = sub

\* the longest run s[from..k] of characters outside stop; <<>> when s[from]
\* is in stop or past the end
RunFrom(s, from, stop) ==
    LET ends == {k \in from..Len(s) : \A j \in from..k : s[j] \notin stop}
    IN  IF ends = {} THEN <<>>
        ELSE SubSeq(s, from, CHOOSE k \in ends : \A m \in ends : m <= k)

\* the smallest member of a non-empty set of numbers
Min(S) == CHOOSE x \in S : \A y \in S : x <= y

\* no match of a regular expression (a group of these patterns is never empty)
NoMatch == <<>>

\* re.search(r'instances/([^\'"\s]+)', s): group(1) of the leftmost match,
\* NoMatch when there is none
InstancePathMatch(s) ==
    LET stop == {"'", "\"", " "}
        hits == {i \in 1..Len(s) :
                    /\ OccursAt(p_instances, s, i)
                    /\ RunFrom(s, i + Len(p_instances), stop) # <<>>}
    IN  IF hits = {} THEN NoMatch
        ELSE RunFrom(s, Min(hits) + Len(p_instances), stop)

\* re.search(r"The resource 'projects/([^/]+)/.*?instances/([^'\"]+)", s):
\* group(2) of the leftmost match, NoMatch when there is none
ResourceMatch(s) ==
    LET quotes == {"'", "\""}
        \* where the instance name would start for a match beginning at i: 0 if none
        InstanceStart(i) ==
            LET p == i + Len(p_the_resource)
                project == RunFrom(s, p, {"/"})
                slash == p + Len(project)
                rest == {j \in (slash + 1)..Len(s) :
                            /\ OccursAt(p_instances, s, j)
                            /\ RunFrom(s, j + Len(p_instances), quotes) # <<>>}
            IN  IF /\ OccursAt(p_the_resource, s, i)
                   /\ project # <<>>
                   /\ slash <= Len(s)
                   /\ s[slash] = "/"
                   /\ rest # {}
                THEN Min(rest) + Len(p_instances)
                ELSE 0
        hits == {i \in 1..Len(s) : InstanceStart(i) # 0}
    IN  IF hits = {} THEN NoMatch
        ELSE RunFrom(s, InstanceStart(Min(hits)), quotes)

-----------------------------------------------------------------------------
(* Client messages.  A message is its fixed text (msg) and the values put  *)
(* into it (sequences; <<>> stands for a slot the text does not have).     *)

Message(msg, a, b) == [msg |-> msg, a |-> a, b |-> b]

\* "Error: VM '{vm_name}' not found. Please verify the VM name and try again."
MsgVmNotFound(vm_name) == Message("vm_not_found", vm_name, <<>>)
\* "Error: Insufficient permissions to perform this operation."
MsgInsufficientPermissions == Message("insufficient_permissions", <<>>, <<>>)
\* "An error occurred while performing the operation. Please check VM name and try again."
MsgGenericFailure == Message("generic_failure", <<>>, <<>>)
\* "Error: The resource '{instance}' was not found in zone '{zone}'."
MsgResourceNotFound(instance, zone) == Message("resource_not_found", instance, <<zone>>)
\* "Operation '{operation}' is not allowed for VM '{vmname}'. Only allowed for: ..."
MsgDenied(operation, vmname) == Message("not_allowed", operation, vmname)
\* "VM {real_vmname} not found in any zone. Please specify a zone parameter."
MsgNoZone(real_vmname) == Message("not_found_in_any_zone", real_vmname, <<>>)
\* "Invalid operation: {operation}"
MsgInvalidOperation(operation) == Message("invalid_operation", operation, <<>>)

\* a mutant of _sanitize_error: the permission test comes first
sanitize_error_permission_first(error_message) ==
    IF \/ IsSubstring(p_permission, Lower(error_message))
       \/ IsSubstring(p_authorized, Lower(error_message))
    THEN MsgInsufficientPermissions
    ELSE IF /\ IsSubstring(p_http404, error_message)
            /\ IsSubstring(p_was_not_found, error_message)
         THEN LET vm_match == InstancePathMatch(error_message)
              IN  MsgVmNotFound(IF vm_match # NoMatch THEN vm_match
                                ELSE s_the_specified_vm)
         ELSE MsgGenericFailure

\* VMOperationsHandler._sanitize_error
sanitize_error(error_message) ==
    IF /\ IsSubstring(p_http404, error_message)
       /\ IsSubstring(p_was_not_found, error_message)
    THEN LET vm_match == InstancePathMatch(error_message)
         IN  MsgVmNotFound(IF vm_match # NoMatch THEN vm_match
                           ELSE s_the_specified_vm)
    ELSE IF \/ IsSubstring(p_permission, Lower(error_message))
            \/ IsSubstring(p_authorized, Lower(error_message))
         THEN MsgInsufficientPermissions
         ELSE MsgGenericFailure

\* the raw texts of the model, as a set
RawTextSet == {RawTexts[i] : i \in RawIds}

\* _sanitize_error and the resource pattern on each raw text of the model,
\* computed once
SanitizedText == [raw \in RawTextSet |-> sanitize_error(raw)]

ResourceMatchOf == [raw \in RawTextSet |-> ResourceMatch(raw)]

-----------------------------------------------------------------------------
(* More string functions: str.strip() and str.split(sep).                  *)

Whitespace == {" ", "\n", "\t", "\r"}

RECURSIVE LStrip(_)
LStrip(s) == IF s # <<>> /\ Head(s) \in Whitespace THEN LStrip(Tail(s)) ELSE s

RECURSIVE RStrip(_)
RStrip(s) ==
    IF s # <<>> /\ s[Len(s)] \in Whitespace
    THEN RStrip(SubSeq(s, 1, Len(s) - 1))
    ELSE s

\* str.strip()
Strip(s) == RStrip(LStrip(s))

\* str.split(sep) for a one-character separator: "".split(',') is ['']
RECURSIVE Split(_, _)
Split(s, sep) ==
    IF \E i \in DOMAIN s : s[i] = sep
    THEN LET first == Min({i \in DOMAIN s : s[i] = sep})
         IN  <<SubSeq(s, 1, first - 1)>> \o Split(SubSeq(s, first + 1, Len(s)), sep)
    ELSE <<s>>

-----------------------------------------------------------------------------
(* VMCache: the directory as a Python dict, a sequence of items in         *)
(* insertion order, and the lookup.  Time is counted in half hours.        *)

\* vm_cache.py CACHE_MAX_AGE_HOURS = 1, in half hours
MaxAgeHalfHours == 2
\* timedelta(minutes=30) of get_vm_zone, in half hours
MissRefreshHalfHours == 1
\* datetime.min
DatetimeMin == -1000

\* key in d
DictHas(d, key) == \E i \in DOMAIN d : d[i].k = key

\* d[key]
DictGet(d, key) == d[CHOOSE i \in DOMAIN d : d[i].k = key].v

\* d[key] = value: an existing key keeps its place
DictSet(d, key, value) ==
    IF DictHas(d, key)
    THEN [i \in DOMAIN d |-> IF d[i].k = key THEN [k |-> key, v |-> value] ELSE d[i]]
    ELSE Append(d, [k |-> key, v |-> value])

\* d.keys() as a set
DictKeys(d) == {d[i].k : i \in DOMAIN d}

\* len(set(k.lower() for k in d.keys())) // 2 if d else 0
CachedVmsCount(d) ==
    IF d = <<>> THEN 0 ELSE Cardinality({Lower(key) : key \in DictKeys(d)}) \div 2

\* a mutant of get_vm_zone_result: no lowercase attempt
get_vm_zone_result_exact_only(d, vm_name) ==
    IF vm_name = <<>> THEN None
    ELSE LET clean_name == SplitFirst(vm_name)
             Partial(item) == \/ IsSubstring(clean_name, item.k)
                              \/ IsSubstring(item.k, clean_name)
             k == FirstIndex(d, Partial)
         IN  IF DictHas(d, clean_name) THEN DictGet(d, clean_name)
             ELSE IF k # 0 THEN d[k].v
             ELSE None

\* a mutant of get_vm_zone_result: no partial match
get_vm_zone_result_no_partial(d, vm_name) ==
    IF vm_name = <<>> THEN None
    ELSE LET clean_name == SplitFirst(vm_name)
             lower_vm_name == Lower(clean_name)
         IN  IF DictHas(d, clean_name) THEN DictGet(d, clean_name)
             ELSE IF DictHas(d, lower_vm_name) THEN DictGet(d, lower_vm_name)
             ELSE None

\* VMCache.get_vm_zone: what it returns
get_vm_zone_result(d, vm_name) ==
    IF vm_name = <<>> THEN None
    ELSE LET clean_name == SplitFirst(vm_name)
             lower_vm_name == Lower(clean_name)
             Partial(item) == \/ IsSubstring(clean_name, item.k)
                              \/ IsSubstring(item.k, clean_name)
             k == FirstIndex(d, Partial)
         IN  IF DictHas(d, clean_name) THEN DictGet(d, clean_name)
             ELSE IF DictHas(d, lower_vm_name) THEN DictGet(d, lower_vm_name)
             ELSE IF k # 0 THEN d[k].v
             ELSE None

\* a mutant of get_vm_zone_schedules: the stale check schedules nothing
get_vm_zone_schedules_miss_only(d, updated, clock, vm_name) ==
    IF vm_name = <<>> THEN 0
    ELSE IF /\ get_vm_zone_result(d, vm_name) = None
            /\ \/ CachedVmsCount(d) = 0
               \/ clock - updated > MissRefreshHalfHours
         THEN 1 ELSE 0

\* VMCache.get_vm_zone: how many refreshes it schedules with
\* asyncio.create_task(self.update_cache())
get_vm_zone_schedules(d, updated, clock, vm_name) ==
    IF vm_name = <<>> THEN 0
    ELSE LET cache_age == clock - updated
             stale == IF cache_age > MaxAgeHalfHours THEN 1 ELSE 0
             miss == IF /\ get_vm_zone_result(d, vm_name) = None
                        /\ \/ CachedVmsCount(d) = 0
                           \/ cache_age > MissRefreshHalfHours
                     THEN 1 ELSE 0
         IN  stale + miss

-----------------------------------------------------------------------------
(* OperationLogger.                                                        *)

Falsy(zone) == zone = None \/ zone = ""

\* a log_operation that writes no row
log_operation_not_written(log, vm_name, operation, client_ip, zone, status, vanity_name) ==
    log

\* OperationLogger.log_operation: the row appended to the month's file
\* (the timestamp column is left out)
log_operation(log, vm_name, operation, client_ip, zone, status, vanity_name) ==
    Append(log, [vm_name |-> vm_name,
                 operation |-> operation,
                 client_ip |-> client_ip,
                 zone |-> IF Falsy(zone) THEN "unknown" ELSE zone,
                 status |-> status,
                 vanity_name |-> IF vanity_name = <<>> THEN vm_name ELSE vanity_name])

-----------------------------------------------------------------------------
(* The operation executor: inputs, events, responses.                      *)

\* how many lines the external command writes to its standard output
MaxLines == 2

\* fastserver.py handle_vm_operation: valid_operations
valid_operations == <<s_status, s_start, s_stop, s_suspend, s_resume>>

\* operation names a caller may pass
Operations == {valid_operations[i] : i \in DOMAIN valid_operations} \cup {s_restart, s_STOP}

Modes == {"sse", "json"}

\* VM identifiers a caller may pass
ExecNames == {s_vm1, s_VM1, s_otherhost, s_nlq \o s_ibi_systems}

\* zone arguments a caller may pass
ZoneArgs == {None, "", "us-east4-a"}

ClientIp == "10.1.1.1"

\* VMCache.update_cache: what a scan stores for one VM of a zone
StoreVm(d, vm, zone) == DictSet(DictSet(d, vm, zone), Lower(vm), zone)

\* a directory as a refresh builds it
DirFull == StoreVm(StoreVm(<<>>, s_vm1, "us-east4-a"), s_guedfocnlq03, "us-central1-b")

\* the character of a small number
Digit(n) == <<"0","1","2","3","4","5","6","7","8","9">>[n + 1]

\* standard output of the describe command in streaming mode (csv format)
StatusOutputs ==
    {[decodable |-> TRUE, text |-> t] : t \in {csv_empty, csv_one, csv_two, csv_three}}
        \cup {[decodable |-> FALSE, text |-> <<>>]}

\* standard output of the describe command in single-response mode: a JSON
\* document (the keys it has) or text that is not JSON
JsonOutputs ==
    { [valid |-> FALSE, empty |-> TRUE, keys |-> {}],
      [valid |-> FALSE, empty |-> FALSE, keys |-> {}],
      [valid |-> TRUE, empty |-> FALSE, keys |-> {"status"}],
      [valid |-> TRUE, empty |-> FALSE,
       keys |-> {"name", "status", "machineType", "networkInterfaces"}] }

\* what the standard output of a describe command that exited with rc was:
\* not looked at (nonzero exit), no bytes at all, bytes that cannot be
\* decoded or parsed, or a record
OutputClass(rc, empty, readable) ==
    IF rc # 0 THEN "unread"
    ELSE IF empty THEN "empty"
    ELSE IF ~readable THEN "garbled"
    ELSE "fields"

\* what the error stream holds: a raw text, or bytes that do not decode (0)
ErrorOutputs == RawIds \cup {0}

\* VMOperationsHandler._format_sse_message
format_sse_message(event_type, data) == [event |-> event_type, data |-> data]

\* fastapi.HTTPException(status_code, detail), raised
HTTPException(status_code, detail) ==
    [kind |-> "raise", status_code |-> status_code, detail |-> detail]

\* a dict returned by execute_operation_json
JsonReturn(body) == [kind |-> "return", status_code |-> 200, detail |-> body]

NoResponse == [kind |-> "none", status_code |-> 0, detail |-> Message("", <<>>, <<>>)]

NoProcess == [state |-> "none", rc |-> -1, err |-> 0, lines |-> 0, out |-> "unread"]

\* "Checking status of VM {real_vmname} in zone {zone}"
MsgCheckingStatus(real_vmname, zone) == Message("checking_status", real_vmname, <<zone>>)
\* "Executing {operation} on VM {real_vmname} in zone {zone}"
MsgExecuting(operation, real_vmname, zone) ==
    Message("executing", operation \o <<" ">> \o real_vmname, <<zone>>)
\* json.dumps(status_info)
MsgStatusInfo(real_vmname, status, machine_type, ip_address, zone) ==
    Message("status_info", <<real_vmname, status, machine_type, ip_address>>, <<zone>>)
\* "VM {real_vmname} is {status} ({machine_type}, IP: {ip_address})"
MsgStatusSuccess(real_vmname, status, machine_type, ip_address) ==
    Message("vm_is", <<real_vmname, status, machine_type, ip_address>>, <<>>)
\* "Unable to parse VM status information"
MsgUnableToParse == Message("unable_to_parse", <<>>, <<>>)
\* one line of the command's standard output
MsgProgress(n) == Message("line", <<Digit(n)>>, <<>>)
\* "Successfully completed {operation} operation on VM {real_vmname} ({vanity_vmname})"
MsgCompleted(operation, real_vmname, vanity_vmname) ==
    Message("successfully_completed", operation \o <<" ">> \o real_vmname, vanity_vmname)
\* {"status": "success", "data": instance_info, "vanity_name": ...}
MsgStatusData(name, status, machine_type, network_ip, zone) ==
    Message("status_data", <<name, status, machine_type, network_ip>>, <<zone>>)
\* "VM {real_vmname} ({vanity_vmname}) {operation_past} successfully."
MsgDoneSuccessfully(operation, real_vmname, vanity_vmname) ==
    Message("done_successfully", operation \o <<" ">> \o real_vmname, vanity_vmname)

s_RUNNING == <<"R","U","N","N","I","N","G">>
s_e2_medium == <<"e","2","-","m","e","d","i","u","m">>
s_10_0_0_2 == <<"1","0",".","0",".","0",".","2">>

\* a _get_gcloud_command that sends every command to the first zone of the
\* static list, whatever zone it is given
get_gcloud_command_fixed_zone(operation, vmname, zone) ==
    IF operation \in {s_status, s_start, s_stop, s_suspend, s_resume}
    THEN << [verb |-> IF operation = s_status THEN s_describe ELSE operation,
             vmname |-> vmname, zone |-> "us-central1-a", format |-> ""] >>
    ELSE <<>>

\* VMOperationsHandler._get_gcloud_command: <<>> stands for None, <<cmd>> for
\* the command
get_gcloud_command(operation, vmname, zone) ==
    IF operation \in {s_status, s_start, s_stop, s_suspend, s_resume}
    THEN << [verb |-> IF operation = s_status THEN s_describe ELSE operation,
             vmname |-> vmname, zone |-> zone, format |-> ""] >>
    ELSE <<>>

\* the describe command of the status operation, by output format
describe_command(vmname, zone, format) ==
    [verb |-> s_describe, vmname |-> vmname, zone |-> zone, format |-> format]

\* a failed command reported with a success event
stream_failure_event_as_success(raw) == format_sse_message("success", SanitizedText[raw])

\* execute_vm_operation, lines 201-204 and 259-268: the error event of a
\* failed command
stream_failure_event(raw) == format_sse_message("error", SanitizedText[raw])

\* a handler of uncaught exceptions that forwards the exception's text as it is
stream_exception_event_unsanitized(raw) ==
    format_sse_message("error", Message("raw", raw, <<>>))

\* execute_vm_operation, lines 280-287: the error event of the handler of
\* uncaught exceptions
stream_exception_event(raw) == format_sse_message("error", SanitizedText[raw])

\* execute_operation_json, lines 478-485: what a failed describe raises
json_status_failure(raw, zone) ==
    LET instance == ResourceMatchOf[raw]
    IN  IF instance # NoMatch
        THEN HTTPException(404, MsgResourceNotFound(instance, zone))
        ELSE HTTPException(500, SanitizedText[raw])

\* execute_operation_json, line 537: what a failed start/stop/suspend/resume
\* raises
json_failure(raw) == HTTPException(500, SanitizedText[raw])

\* execute_operation_json, lines 545-561: what the handler of uncaught
\* exceptions raises
json_exception(raw) == HTTPException(500, SanitizedText[raw])

-----------------------------------------------------------------------------
(* The operation executor: how an invocation starts.                       *)

NoRequest ==
    [via |-> "none", mode |-> "none", vmname |-> <<>>, operation |-> <<>>, zone |-> None]

NoLocals == [real_vmname |-> <<>>, vanity_vmname |-> <<>>, zone |-> None]

\* "Invalid operation: {operation}. Valid operations are: ..."
MsgInvalidOperationValidAre(operation) == Message("invalid_operation_valid_are", operation, <<>>)

\* the executor is entered with these arguments
Call(via, mode, vmname, operation, zone) ==
    /\ pc = "idle"
    /\ req' = [via |-> via, mode |-> mode, vmname |-> vmname, operation |-> operation,
               zone |-> zone]
    /\ pc' = IF mode = "sse" THEN "s_entry" ELSE "j_entry"
    /\ UNCHANGED <<loc, events, response, audit, extCalls, proc>>
    /\ UNCHANGED <<logVars, histVars, modeVars, lifeVars, sseVars, nameVars, sanVars, cacheVars>>

\* a mutant of handle_vm_operation: the operation name is not validated
handle_vm_operation_no_validation ==
    \E vmname \in ExecNames, operation \in Operations, zone \in ZoneArgs, format \in Modes :
        Call("endpoint", format, vmname, operation, zone)

\* fastserver.handle_vm_operation: a request through the endpoint
handle_vm_operation ==
    \E vmname \in ExecNames, operation \in Operations, zone \in ZoneArgs, format \in Modes :
        IF ~InList(operation, valid_operations)
        THEN /\ pc = "idle"
             /\ req' = [via |-> "endpoint", mode |-> format, vmname |-> vmname,
                        operation |-> operation, zone |-> zone]
             /\ response' = HTTPException(400, MsgInvalidOperationValidAre(operation))
             /\ pc' = "rejected"
             /\ UNCHANGED <<loc, events, audit, extCalls, proc>>
             /\ UNCHANGED <<logVars, histVars, modeVars, lifeVars, sseVars, nameVars, sanVars, cacheVars>>
        ELSE Call("endpoint", format, vmname, operation, zone)

\* VMOperationsHandler.stream_operation / execute_vm_operation called by
\* another caller than the endpoint
execute_vm_operation ==
    \E vmname \in ExecNames, operation \in Operations, zone \in ZoneArgs :
        Call("direct", "sse", vmname, operation, zone)

\* VMOperationsHandler.execute_operation_json called by another caller than
\* the endpoint
execute_operation_json ==
    \E vmname \in ExecNames, operation \in Operations, zone \in ZoneArgs :
        Call("direct", "json", vmname, operation, zone)

-----------------------------------------------------------------------------
(* Streaming mode: execute_vm_operation, one action per stretch of code    *)
(* between two points where the generator is suspended (yield, await).     *)

\* the launched process
Running == [state |-> "running", rc |-> -1, err |-> 0, lines |-> 0, out |-> "unread"]

\* asyncio.create_subprocess_exec raised
LaunchFailed ==
    [state |-> "launch_failed", rc |-> -1, err |-> 0, lines |-> 0, out |-> "unread"]

\* execute_vm_operation, lines 280-287: the except branch up to its yield
StreamRaise(raw) ==
    /\ events' = Append(events, stream_exception_event(raw))
    /\ pc' = "s_exception_yield"

\* execute_vm_operation, lines 221-223: the event of an operation without
\* a command
\* an invalid-operation branch that returns without yielding its error event
stream_invalid_operation_no_event(ev, operation) == ev

stream_invalid_operation(ev, operation) ==
    Append(ev, format_sse_message("error", MsgInvalidOperation(operation)))

\* execute_vm_operation, lines 80-139 and 218-225: from the call to the first
\* yield
S_Begin ==
    /\ pc = "s_entry"
    /\ LET real_vmname == map_vanity_to_hostname(req.vmname)
           vanity_vmname == get_vanity_name(req.vmname)
           lookup == Falsy(req.zone)
           zone == IF lookup THEN get_vm_zone_result(vm_zone_map, real_vmname)
                   ELSE req.zone
       IN  IF ~is_vm_allowed_for_operation(real_vmname, req.operation)
           THEN /\ events' = Append(events, format_sse_message("error",
                                 MsgDenied(req.operation, req.vmname)))
                /\ loc' = [real_vmname |-> real_vmname, vanity_vmname |-> vanity_vmname,
                           zone |-> req.zone]
                /\ pc' = "s_denied_yield"
                /\ UNCHANGED <<audit, scheduled>>
           ELSE /\ loc' = [real_vmname |-> real_vmname, vanity_vmname |-> vanity_vmname,
                           zone |-> zone]
                /\ scheduled' =
                       IF lookup
                       THEN scheduled + get_vm_zone_schedules(vm_zone_map, last_update,
                                                              now, real_vmname)
                       ELSE scheduled
                /\ IF Falsy(zone)
                   THEN /\ events' = Append(events, format_sse_message("error",
                                         MsgNoZone(real_vmname)))
                        /\ pc' = "s_nozone_yield"
                        /\ UNCHANGED audit
                   ELSE /\ audit' = log_operation(audit, real_vmname, req.operation,
                                                  ClientIp, zone, "started", vanity_vmname)
                        /\ IF req.operation = s_status
                           THEN /\ events' = Append(events, format_sse_message("info",
                                                 MsgCheckingStatus(real_vmname, zone)))
                                /\ pc' = "s_status_info_yield"
                           ELSE IF get_gcloud_command(req.operation, real_vmname, zone) = <<>>
                           THEN /\ events' = stream_invalid_operation(events, req.operation)
                                /\ pc' = "s_last_yield"
                           ELSE /\ events' = Append(events, format_sse_message("info",
                                                 MsgExecuting(req.operation, real_vmname, zone)))
                                /\ pc' = "s_exec_info_yield"
    /\ UNCHANGED <<req, response, extCalls, proc>>
    /\ UNCHANGED <<logVars, histVars, modeVars, lifeVars, sseVars, nameVars, sanVars, vm_zone_map, vm_cache, last_update, now, refresh,
                   cache_file, obs>>

\* execute_vm_operation, lines 92-101: the denial row, after the yield
S_DeniedLog ==
    /\ pc = "s_denied_yield"
    /\ audit' = log_operation(audit, loc.real_vmname, req.operation, ClientIp,
                              req.zone, "denied", loc.vanity_vmname)
    /\ pc' = "done"
    /\ UNCHANGED <<req, loc, events, response, extCalls, proc>>
    /\ UNCHANGED <<logVars, histVars, modeVars, lifeVars, sseVars, nameVars, sanVars, cacheVars>>

\* the status of the row written when no zone is known
\* a no-zone branch that records the row under the generic failure status
no_zone_status_failed == "failed"

no_zone_status == "failed-no-zone"

\* execute_vm_operation, lines 113-123: the no-zone row, after the yield
S_NoZoneLog ==
    /\ pc = "s_nozone_yield"
    /\ audit' = log_operation(audit, loc.real_vmname, req.operation, ClientIp,
                              "unknown", no_zone_status, loc.vanity_vmname)
    /\ pc' = "done"
    /\ UNCHANGED <<req, loc, events, response, extCalls, proc>>
    /\ UNCHANGED <<logVars, histVars, modeVars, lifeVars, sseVars, nameVars, sanVars, cacheVars>>

\* the generator ends after its last yield (lines 216, 223)
S_Return ==
    /\ pc = "s_last_yield"
    /\ pc' = "done"
    /\ UNCHANGED <<req, loc, events, response, audit, extCalls, proc>>
    /\ UNCHANGED <<logVars, histVars, modeVars, lifeVars, sseVars, nameVars, sanVars, cacheVars>>

\* execute_vm_operation, lines 141-151: the describe command is launched
S_StatusLaunch ==
    /\ pc = "s_status_info_yield"
    /\ \E launched \in BOOLEAN :
          IF launched
          THEN /\ extCalls' = Append(extCalls,
                       describe_command(loc.real_vmname, loc.zone, "csv"))
               /\ proc' = Running
               /\ pc' = "s_status_communicate"
               /\ UNCHANGED events
          ELSE /\ proc' = LaunchFailed
               /\ StreamRaise(raw_launch)
               /\ UNCHANGED extCalls
    /\ UNCHANGED <<req, loc, response, audit>>
    /\ UNCHANGED <<logVars, histVars, modeVars, lifeVars, sseVars, nameVars, sanVars, cacheVars>>

\* execute_vm_operation, lines 151-214: the describe command has ended
S_StatusResult ==
    /\ pc = "s_status_communicate"
    /\ \E rc \in {0, 1}, output \in StatusOutputs, error \in ErrorOutputs :
          /\ rc = 0 => error = 0
          /\ rc # 0 => output = [decodable |-> TRUE, text |-> csv_empty]
          /\ proc' = [proc EXCEPT !.state = "exited", !.rc = rc, !.err = error,
                                  !.out = OutputClass(rc, output.decodable
                                                          /\ output.text = csv_empty,
                                                      output.decodable)]
          /\ IF rc = 0
             THEN IF ~output.decodable
                  THEN StreamRaise(raw_decode) /\ UNCHANGED audit
                  ELSE LET vm_info == Split(Strip(output.text), ",")
                           status == Strip(vm_info[1])
                           machine_type == IF Len(vm_info) >= 2 THEN Strip(vm_info[2])
                                           ELSE s_unknown
                           ip_address == IF Len(vm_info) >= 3 THEN Strip(vm_info[3])
                                         ELSE s_unknown
                       IN  IF Len(vm_info) >= 1
                           THEN /\ audit' = log_operation(audit, loc.real_vmname,
                                                req.operation, ClientIp, loc.zone,
                                                "completed", loc.vanity_vmname)
                                /\ events' = Append(events, format_sse_message("status",
                                                 MsgStatusInfo(loc.real_vmname, status,
                                                     machine_type, ip_address, loc.zone)))
                                /\ pc' = "s_status_yield"
                           ELSE /\ events' = Append(events,
                                                 format_sse_message("error", MsgUnableToParse))
                                /\ pc' = "s_last_yield"
                                /\ UNCHANGED audit
             ELSE IF error = 0
                  THEN StreamRaise(raw_decode) /\ UNCHANGED audit
                  ELSE /\ events' = Append(events, stream_failure_event(RawTexts[error]))
                       /\ pc' = "s_failure_yield"
                       /\ UNCHANGED audit
    /\ UNCHANGED <<req, loc, response, extCalls>>
    /\ UNCHANGED <<logVars, histVars, modeVars, lifeVars, sseVars, nameVars, sanVars, cacheVars>>

\* execute_vm_operation, line 197: the success event of status
S_StatusSuccess ==
    /\ pc = "s_status_yield"
    /\ LET info == events[Len(events)].data.a
       IN  events' = Append(events, format_sse_message("success",
                         MsgStatusSuccess(info[1], info[2], info[3], info[4])))
    /\ pc' = "s_last_yield"
    /\ UNCHANGED <<req, loc, response, audit, extCalls, proc>>
    /\ UNCHANGED <<logVars, histVars, modeVars, lifeVars, sseVars, nameVars, sanVars, cacheVars>>

\* execute_vm_operation, lines 206-216 and 270-278: the row of a failed
\* command, after the yield of its error event
S_FailureLog ==
    /\ pc = "s_failure_yield"
    /\ audit' = log_operation(audit, loc.real_vmname, req.operation, ClientIp,
                              loc.zone, "failed", loc.vanity_vmname)
    /\ pc' = "done"
    /\ UNCHANGED <<req, loc, events, response, extCalls, proc>>
    /\ UNCHANGED <<logVars, histVars, modeVars, lifeVars, sseVars, nameVars, sanVars, cacheVars>>

\* execute_vm_operation, lines 227-232: the command is launched
S_ExecLaunch ==
    /\ pc = "s_exec_info_yield"
    /\ \E launched \in BOOLEAN :
          IF launched
          THEN /\ extCalls' = extCalls \o
                       get_gcloud_command(req.operation, loc.real_vmname, loc.zone)
               /\ proc' = Running
               /\ pc' = "s_readline"
               /\ UNCHANGED events
          ELSE /\ proc' = LaunchFailed
               /\ StreamRaise(raw_launch)
               /\ UNCHANGED extCalls
    /\ UNCHANGED <<req, loc, response, audit>>
    /\ UNCHANGED <<logVars, histVars, modeVars, lifeVars, sseVars, nameVars, sanVars, cacheVars>>

\* execute_vm_operation, lines 235-239: one line of output is read and
\* forwarded
S_ReadLine ==
    /\ pc = "s_readline"
    /\ proc.lines < MaxLines
    /\ \E decodable \in BOOLEAN :
          /\ proc' = [proc EXCEPT !.lines = @ + 1,
                                  !.out = IF decodable THEN @ ELSE "garbled"]
          /\ IF decodable
             THEN /\ events' = Append(events, format_sse_message("progress",
                                   MsgProgress(proc.lines + 1)))
                  /\ pc' = "s_progress_yield"
             ELSE StreamRaise(raw_decode)
    /\ UNCHANGED <<req, loc, response, audit, extCalls>>
    /\ UNCHANGED <<logVars, histVars, modeVars, lifeVars, sseVars, nameVars, sanVars, cacheVars>>

\* the generator is resumed after a progress event
S_ProgressResume ==
    /\ pc = "s_progress_yield"
    /\ pc' = "s_readline"
    /\ UNCHANGED <<req, loc, events, response, audit, extCalls, proc>>
    /\ UNCHANGED <<logVars, histVars, modeVars, lifeVars, sseVars, nameVars, sanVars, cacheVars>>

\* execute_vm_operation, lines 236-268: end of output, the process has
\* exited
S_ExecResult ==
    /\ pc = "s_readline"
    /\ \E rc \in {0, 1}, error \in ErrorOutputs :
          /\ rc = 0 => error = 0
          /\ proc' = [proc EXCEPT !.state = "exited", !.rc = rc, !.err = error]
          /\ IF rc = 0
             THEN /\ events' = Append(events, format_sse_message("success",
                                   MsgCompleted(req.operation, loc.real_vmname,
                                                loc.vanity_vmname)))
                  /\ pc' = "s_success_yield"
             ELSE IF error = 0
                  THEN StreamRaise(raw_decode)
                  ELSE /\ events' = Append(events, stream_failure_event(RawTexts[error]))
                       /\ pc' = "s_failure_yield"
    /\ UNCHANGED <<req, loc, response, audit, extCalls>>
    /\ UNCHANGED <<logVars, histVars, modeVars, lifeVars, sseVars, nameVars, sanVars, cacheVars>>

\* execute_vm_operation, lines 249-257: the row of a completed command, after
\* the yield of its success event
S_SuccessLog ==
    /\ pc = "s_success_yield"
    /\ audit' = log_operation(audit, loc.real_vmname, req.operation, ClientIp,
                              loc.zone, "completed", loc.vanity_vmname)
    /\ pc' = "done"
    /\ UNCHANGED <<req, loc, events, response, extCalls, proc>>
    /\ UNCHANGED <<logVars, histVars, modeVars, lifeVars, sseVars, nameVars, sanVars, cacheVars>>

\* execute_vm_operation, lines 289-297: the row of the except branch, after
\* the yield of its error event
S_ExceptionLog ==
    /\ pc = "s_exception_yield"
    /\ audit' = log_operation(audit, loc.real_vmname, req.operation, ClientIp,
                              loc.zone, "error", loc.vanity_vmname)
    /\ pc' = "done"
    /\ UNCHANGED <<req, loc, events, response, extCalls, proc>>
    /\ UNCHANGED <<logVars, histVars, modeVars, lifeVars, sseVars, nameVars, sanVars, cacheVars>>

-----------------------------------------------------------------------------
(* Single-response mode: execute_operation_json, one action per stretch of *)
(* code between two awaits.                                                *)

\* execute_operation_json, lines 545-561: the except branch
JsonRaise(raw) ==
    /\ audit' = log_operation(audit, loc'.real_vmname, req.operation, ClientIp,
                              loc'.zone, "error", loc'.vanity_vmname)
    /\ response' = json_exception(raw)
    /\ pc' = "done"

\* execute_operation_json, lines 350-420 and 487-503: from the call to the
\* first await
J_Begin ==
    /\ pc = "j_entry"
    /\ LET real_vmname == map_vanity_to_hostname(req.vmname)
           vanity_vmname == get_vanity_name(req.vmname)
           lookup == Falsy(req.zone)
           zone == IF lookup THEN get_vm_zone_result(vm_zone_map, real_vmname)
                   ELSE req.zone
           started == log_operation(audit, real_vmname, req.operation, ClientIp,
                                    zone, "started", vanity_vmname)
       IN  IF ~is_vm_allowed_for_operation(real_vmname, req.operation)
           THEN /\ audit' = log_operation(audit, real_vmname, req.operation, ClientIp,
                                          req.zone, "denied", vanity_vmname)
                /\ response' = HTTPException(403, MsgDenied(req.operation, req.vmname))
                /\ loc' = [real_vmname |-> real_vmname, vanity_vmname |-> vanity_vmname,
                           zone |-> req.zone]
                /\ pc' = "done"
                /\ UNCHANGED <<scheduled, extCalls, proc>>
           ELSE /\ loc' = [real_vmname |-> real_vmname, vanity_vmname |-> vanity_vmname,
                           zone |-> zone]
                /\ scheduled' =
                       IF lookup
                       THEN scheduled + get_vm_zone_schedules(vm_zone_map, last_update,
                                                              now, real_vmname)
                       ELSE scheduled
                /\ IF Falsy(zone)
                   THEN /\ audit' = log_operation(audit, real_vmname, req.operation,
                                        ClientIp, "unknown", no_zone_status, vanity_vmname)
                        /\ response' = HTTPException(404, MsgNoZone(real_vmname))
                        /\ pc' = "done"
                        /\ UNCHANGED <<extCalls, proc>>
                   ELSE IF req.operation = s_status
                   THEN \E launched \in BOOLEAN :
                           IF launched
                           THEN /\ audit' = started
                                /\ extCalls' = Append(extCalls,
                                        describe_command(real_vmname, zone, "json"))
                                /\ proc' = Running
                                /\ pc' = "j_status_communicate"
                                /\ UNCHANGED response
                           ELSE /\ audit' = log_operation(started, real_vmname,
                                                req.operation, ClientIp, zone, "error",
                                                vanity_vmname)
                                /\ response' = json_exception(raw_launch)
                                /\ proc' = LaunchFailed
                                /\ pc' = "done"
                                /\ UNCHANGED extCalls
                   ELSE IF req.operation \in {s_start, s_stop, s_suspend, s_resume}
                   THEN \E launched \in BOOLEAN :
                           IF launched
                           THEN /\ audit' = started
                                /\ extCalls' = extCalls \o
                                        get_gcloud_command(req.operation, real_vmname, zone)
                                /\ proc' = Running
                                /\ pc' = "j_exec_communicate"
                                /\ UNCHANGED response
                           ELSE /\ audit' = log_operation(started, real_vmname,
                                                req.operation, ClientIp, zone, "error",
                                                vanity_vmname)
                                /\ response' = json_exception(raw_launch)
                                /\ proc' = LaunchFailed
                                /\ pc' = "done"
                                /\ UNCHANGED extCalls
                   ELSE /\ audit' = started
                        /\ response' = HTTPException(400, MsgInvalidOperation(req.operation))
                        /\ pc' = "done"
                        /\ UNCHANGED <<extCalls, proc>>
    /\ UNCHANGED <<req, events>>
    /\ UNCHANGED <<logVars, histVars, modeVars, lifeVars, sseVars, nameVars, sanVars, vm_zone_map, vm_cache, last_update, now, refresh,
                   cache_file, obs>>

\* execute_operation_json, lines 420-485: the describe command has ended
J_StatusResult ==
    /\ pc = "j_status_communicate"
    /\ \E rc \in {0, 1}, output \in JsonOutputs, error \in ErrorOutputs :
          /\ rc = 0 => error = 0
          /\ rc # 0 => output = [valid |-> FALSE, empty |-> TRUE, keys |-> {}]
          /\ proc' = [proc EXCEPT !.state = "exited", !.rc = rc, !.err = error,
                                  !.out = OutputClass(rc, output.empty, output.valid)]
          /\ loc' = loc
          /\ IF rc = 0
             THEN IF ~output.valid
                  THEN JsonRaise(raw_json)
                  ELSE LET Field(key, value) == IF key \in output.keys THEN value
                                                ELSE s_unknown
                       IN  /\ audit' = log_operation(audit, loc.real_vmname, req.operation,
                                           ClientIp, loc.zone, "completed", loc.vanity_vmname)
                           /\ response' = JsonReturn(MsgStatusData(
                                              Field("name", loc.real_vmname),
                                              Field("status", s_RUNNING),
                                              Field("machineType", s_e2_medium),
                                              Field("networkInterfaces", s_10_0_0_2),
                                              loc.zone))
                           /\ pc' = "done"
             ELSE IF error = 0
                  THEN JsonRaise(raw_decode)
                  ELSE /\ audit' = log_operation(audit, loc.real_vmname, req.operation,
                                       ClientIp, loc.zone, "failed", loc.vanity_vmname)
                       /\ response' = json_status_failure(RawTexts[error], loc.zone)
                       /\ pc' = "done"
    /\ UNCHANGED <<req, events, extCalls>>
    /\ UNCHANGED <<logVars, histVars, modeVars, lifeVars, sseVars, nameVars, sanVars, cacheVars>>

\* execute_operation_json, lines 505-537: the command has ended
J_ExecResult ==
    /\ pc = "j_exec_communicate"
    /\ \E rc \in {0, 1}, error \in ErrorOutputs, decodable \in BOOLEAN :
          /\ rc = 0 => error = 0
          /\ proc' = [proc EXCEPT !.state = "exited", !.rc = rc, !.err = error,
                                  !.out = IF decodable THEN @ ELSE "garbled"]
          /\ loc' = loc
          /\ IF rc = 0
             THEN /\ audit' = log_operation(audit, loc.real_vmname, req.operation,
                                  ClientIp, loc.zone, "completed", loc.vanity_vmname)
                  /\ response' = JsonReturn(MsgDoneSuccessfully(req.operation,
                                     loc.real_vmname, loc.vanity_vmname))
                  /\ pc' = "done"
             ELSE IF error = 0
                  THEN JsonRaise(raw_decode)
                  ELSE /\ audit' = log_operation(audit, loc.real_vmname, req.operation,
                                       ClientIp, loc.zone, "failed", loc.vanity_vmname)
                       /\ response' = json_failure(RawTexts[error])
                       /\ pc' = "done"
    /\ UNCHANGED <<req, events, extCalls>>
    /\ UNCHANGED <<logVars, histVars, modeVars, lifeVars, sseVars, nameVars, sanVars, cacheVars>>

-----------------------------------------------------------------------------
(* Spec: one invocation of the executor against a directory.  The          *)
(* invocation reads the directory once, in one step (get_vm_zone is a      *)
(* plain call), so the directory is drawn in Init from the states a        *)
(* refresh can leave it in and stays as it is.                             *)

\* os.path.exists(cache_file) is false
NoFile == [kind |-> "none"]

NameOff == nr = [pc |-> "off"]

SseOff ==
    /\ operation_events = <<>>
    /\ subscriber = [pc |-> "off"]

LifeOff ==
    /\ refresh_task = 0
    /\ tasks = <<>>
    /\ app = [pc |-> "off"]

\* no invocation ran before
NoFirstRun == [done |-> FALSE]

ModeOff == first_run = NoFirstRun

\* no directory state was written and no refresh has called out or started
NoLockUse == [by |-> "none", held |-> FALSE, call |-> "none"]
NoAttempts == [last |-> "none", cooled |-> FALSE, close |-> FALSE]
HistOff == lock_use = NoLockUse /\ attempts = NoAttempts

\* the monthly file does not exist and nobody is writing
NoLogFile == [exists |-> FALSE, rows |-> <<>>, was |-> <<>>, overlap |-> FALSE]
LogOff == log_file = NoLogFile /\ writers = <<>>

SanOff == sr = [pc |-> "off"]

ExecOff ==
    /\ req = NoRequest
    /\ pc = "off"
    /\ loc = NoLocals
    /\ events = <<>>
    /\ response = NoResponse
    /\ audit = <<>>
    /\ extCalls = <<>>
    /\ proc = NoProcess

\* (last_update, now) pairs: never refreshed, just refreshed, refreshed an
\* hour ago, refreshed an hour and a half ago
Ages == {<<DatetimeMin, 0>>, <<0, 0>>, <<0, 2>>, <<0, 3>>}

ExecInit ==
    /\ req = NoRequest
    /\ pc = "idle"
    /\ loc = NoLocals
    /\ events = <<>>
    /\ response = NoResponse
    /\ audit = <<>>
    /\ extCalls = <<>>
    /\ proc = NoProcess

Init ==
    /\ LifeOff
    /\ ModeOff
    /\ HistOff
    /\ LogOff
    /\ SseOff
    /\ ExecInit
    /\ NameOff
    /\ SanOff
    /\ vm_zone_map \in {<<>>, DirFull}
    /\ vm_cache = <<>>
    /\ \E age \in Ages : last_update = age[1] /\ now = age[2]
    /\ refresh = <<>>
    /\ scheduled = 0
    /\ cache_file = NoFile
    /\ obs = <<>>

Next ==
    \/ handle_vm_operation
    \/ execute_vm_operation
    \/ execute_operation_json
    \/ S_Begin
    \/ S_DeniedLog
    \/ S_NoZoneLog
    \/ S_Return
    \/ S_StatusLaunch
    \/ S_StatusResult
    \/ S_StatusSuccess
    \/ S_FailureLog
    \/ S_ExecLaunch
    \/ S_ReadLine
    \/ S_ProgressResume
    \/ S_ExecResult
    \/ S_SuccessLog
    \/ S_ExceptionLog
    \/ J_Begin
    \/ J_StatusResult
    \/ J_ExecResult

Spec == Init /\ [][Next]_vars

-----------------------------------------------------------------------------
(* Properties of the executor, checked under Spec.                         *)

Invoked == pc \notin {"off", "idle", "rejected"}

\* the terminal events of the stream
TerminalEvents == {i \in DOMAIN events : events[i].event \in {"success", "error"}}

\* how many terminal outcomes the invocation has produced so far
TerminalOutcomes ==
    IF req.mode = "sse" THEN Cardinality(TerminalEvents)
    ELSE IF response.kind # "none" THEN 1 ELSE 0

\* the rows of the audit log with one of these statuses
Rows(statuses) == {i \in DOMAIN audit : audit[i].status \in statuses}

\* the message of the terminal outcome (of a finished invocation)
OutcomeMessage ==
    IF req.mode = "sse" THEN events[CHOOSE i \in TerminalEvents : TRUE].data
    ELSE response.detail

C2_StartedThenOneTerminalRow ==
    (pc = "done" /\ Rows({"started"}) # {}) =>
        /\ Cardinality(Rows({"completed", "failed", "error"})) = 1
        /\ \A i \in Rows({"started"}), j \in Rows({"completed", "failed", "error"}) : i < j

\* C3: a restricted operation (stop, suspend) on a VM whose canonical name is
\* not in the allow-list launches no external command, writes no 'started'
\* row, and ends with exactly one denial outcome (HTTP 403 in single-response
\* mode) and exactly one audit row, of status 'denied'.
C3_RestrictedDenied ==
    (/\ Invoked
     /\ req.operation \in {s_stop, s_suspend}
     /\ ~InList(map_vanity_to_hostname(req.vmname), ALLOWED_VMS)) =>
        /\ extCalls = <<>>
        /\ proc = NoProcess
        /\ Rows({"started"}) = {}
        /\ pc = "done" =>
              /\ Len(audit) = 1
              /\ audit[1].status = "denied"
              /\ audit[1].vm_name = map_vanity_to_hostname(req.vmname)
              /\ IF req.mode = "sse"
                 THEN events = <<format_sse_message("error",
                                     MsgDenied(req.operation, req.vmname))>>
                 ELSE response = HTTPException(403, MsgDenied(req.operation, req.vmname))

C3_Witness ==
    /\ pc = "done"
    /\ req.operation = s_suspend
    /\ req.vmname = s_otherhost
    /\ req.mode = "sse"
    /\ Len(audit) = 1
    /\ Len(events) = 1

\* C4: when no zone is supplied and the directory lookup finds nothing, the
\* invocation launches no external command, writes no 'started' row, and ends
\* with one 'not found in any zone' error outcome and exactly one audit row,
\* of status 'failed-no-zone'.
C4_NoZoneFound ==
    (/\ Invoked
     /\ pc \notin {"s_entry", "j_entry"}
     /\ Falsy(req.zone)
     /\ is_vm_allowed_for_operation(map_vanity_to_hostname(req.vmname), req.operation)
     /\ get_vm_zone_result(vm_zone_map, map_vanity_to_hostname(req.vmname)) = None) =>
        /\ extCalls = <<>>
        /\ proc = NoProcess
        /\ Rows({"started"}) = {}
        /\ TerminalOutcomes = 1
        /\ OutcomeMessage = MsgNoZone(map_vanity_to_hostname(req.vmname))
        /\ req.mode = "sse" => events[1].event = "error" /\ Len(events) = 1
        /\ req.mode = "json" => response.kind = "raise" /\ response.status_code = 404
        /\ pc = "done" =>
              /\ Len(audit) = 1
              /\ audit[1].status = "failed-no-zone"
              /\ audit[1].zone = "unknown"

C4_Witness ==
    /\ pc = "done"
    /\ req.zone = None
    /\ req.vmname = s_otherhost
    /\ req.operation = s_start
    /\ req.mode = "json"
    /\ response.status_code = 404
    /\ Len(audit) = 1


\* the two patterns of the sanitizer, as the claims about it name them
HasNotFoundPattern(raw) == IsSubstring(p_http404, raw) /\ IsSubstring(p_was_not_found, raw)

HasPermissionPattern(raw) ==
    IsSubstring(p_permission, Lower(raw)) \/ IsSubstring(p_authorized, Lower(raw))

\* the pattern class of a raw text, in priority order
PatternClass(raw) ==
    IF HasNotFoundPattern(raw) THEN "vm_not_found"
    ELSE IF HasPermissionPattern(raw) THEN "insufficient_permissions"
    ELSE "generic_failure"

PatternClassOf == [raw \in RawTextSet |-> PatternClass(raw)]

\* the three fixed messages of the sanitizer
SanitizerMessages == {"vm_not_found", "insufficient_permissions", "generic_failure"}

\* the invocation has finished with the error outcome of a failed command
AfterToolFailure == pc = "done" /\ proc.state = "exited" /\ proc.rc # 0 /\ proc.err # 0

\* the invocation has finished with the error outcome of an uncaught exception
AfterUncaughtFault == pc = "done" /\ Rows({"error"}) # {}

JsonStatusResourceCase ==
    /\ AfterToolFailure
    /\ req.mode = "json"
    /\ req.operation = s_status
    /\ ResourceMatchOf[RawTexts[proc.err]] # NoMatch

-----------------------------------------------------------------------------
(* SpecName: the name resolver and the authorization policy as pure        *)
(* functions, applied to names drawn from a bounded set.                   *)

\* what precedes the domain part of an input name
NameBases == {<<>>, s_vm1, s_nlq, s_py_server, s_guedfocnlq03, s_otherhost}

\* domain parts: the three known suffixes and an unknown one
NameSuffixes == {s_ibi_systems, s_dev_tibco_com, s_tibco_com, s_local}

RECURSIVE SuffixChains(_)
\* every concatenation of at most n suffixes
SuffixChains(n) ==
    IF n = 0 THEN {<<>>}
    ELSE SuffixChains(n - 1) \cup
         {c \o s : c \in SuffixChains(n - 1), s \in NameSuffixes}

Names == {b \o c : b \in NameBases, c \in SuffixChains(MaxSuffixes)}

CacheOff ==
    /\ vm_zone_map = DirFull
    /\ vm_cache = <<>>
    /\ last_update = 0
    /\ now = 0
    /\ refresh = <<>>
    /\ scheduled = 0
    /\ cache_file = NoFile
    /\ obs = <<>>

NameInit ==
    /\ LifeOff
    /\ ModeOff
    /\ HistOff
    /\ LogOff
    /\ SseOff
    /\ \E x \in Names :
          nr = [pc |-> "name", vmname |-> x, h |-> <<>>, m |-> <<>>,
                decided |-> FALSE, operation |-> <<>>, allowed |-> FALSE]
    /\ SanOff
    /\ ExecOff
    /\ CacheOff

\* what the next application of a canonicalizer is applied to
Latest(results) == IF results = <<>> THEN nr.vmname ELSE results[Len(results)]

\* handler.map_vanity_to_hostname applied to the name, then to its own result
N_Canonicalize ==
    /\ nr.pc = "name"
    /\ Len(nr.h) < MaxApply
    /\ nr' = [nr EXCEPT !.h = Append(@, map_vanity_to_hostname(Latest(nr.h)))]
    /\ UNCHANGED <<logVars, histVars, modeVars, lifeVars, sseVars, sanVars, execVars, cacheVars>>

\* VMNameManager.map_vanity_to_hostname applied to the name, then to its own
\* result
N_ManagerCanonicalize ==
    /\ nr.pc = "name"
    /\ Len(nr.m) < MaxApply
    /\ nr' = [nr EXCEPT
                 !.m = Append(@, VMNameManager_map_vanity_to_hostname(Latest(nr.m)))]
    /\ UNCHANGED <<logVars, histVars, modeVars, lifeVars, sseVars, sanVars, execVars, cacheVars>>

\* handler.is_vm_allowed_for_operation(vmname, operation)
N_Policy ==
    /\ nr.pc = "name"
    /\ ~nr.decided
    /\ \E operation \in Operations :
          nr' = [nr EXCEPT !.decided = TRUE,
                           !.operation = operation,
                           !.allowed = is_vm_allowed_for_operation(nr.vmname, operation)]
    /\ UNCHANGED <<logVars, histVars, modeVars, lifeVars, sseVars, sanVars, execVars, cacheVars>>

NameNext ==
    \/ N_Canonicalize
    \/ N_ManagerCanonicalize
    \/ N_Policy

SpecName == NameInit /\ [][NameNext]_vars

PolicyDecided == nr.pc = "name" /\ nr.decided

\* C5 as stated: is_vm_allowed_for_operation(name, op) is true for every name
\* when op is not a member of the restricted-operations set, and for a
\* restricted op is true exactly when the canonical name is in the allow-list.
C5_AllowedIffUnrestrictedOrListed ==
    PolicyDecided =>
        nr.allowed = (\/ ~InList(nr.operation, RESTRICTED_OPERATIONS)
                      \/ InList(map_vanity_to_hostname(nr.vmname), ALLOWED_VMS))

\* C5 as amended: is_vm_allowed_for_operation(name, op) is true for every name
\* when op, lowercased, is not a member of the restricted-operations set, and
\* for an op that lowercases to a restricted one is true exactly when the
\* canonical name is in the allow-list; the decision leaves the directory, the
\* audit log and the external tool untouched.
C5_AllowedIffLowercasedUnrestrictedOrListed ==
    PolicyDecided =>
        /\ nr.allowed = (\/ ~InList(Lower(nr.operation), <<s_stop, s_suspend>>)
                         \/ InList(map_vanity_to_hostname(nr.vmname), ALLOWED_VMS))
        /\ audit = <<>>
        /\ extCalls = <<>>
        /\ vm_zone_map = DirFull
        /\ refresh = <<>>

C5_Witness ==
    /\ PolicyDecided
    /\ nr.vmname = s_vm1 \o s_ibi_systems
    /\ nr.operation = s_STOP
    /\ ~nr.allowed

\* C10: canonicalizing a canonical name changes nothing, for the handler's
\* canonicalizer and for VMNameManager's:
\* canonicalize(canonicalize(x)) = canonicalize(x).
C10_CanonicalizeIdempotent ==
    nr.pc = "name" =>
        /\ \A i \in 2..Len(nr.h) : nr.h[i] = nr.h[1]
        /\ \A i \in 2..Len(nr.m) : nr.m[i] = nr.m[1]

\* the handler's canonicalizer alone is idempotent on the same inputs
HandlerCanonicalizeIdempotent ==
    nr.pc = "name" => \A i \in 2..Len(nr.h) : nr.h[i] = nr.h[1]


-----------------------------------------------------------------------------
(* SpecSanitize: two runs of one request whose external tool fails with    *)
(* two raw texts; each run ends in the error outcome its mode and its path *)
(* through the executor give it.                                           *)

\* the sanitizer's instance pattern on each raw text of the model
InstancePathOf == [raw \in RawTextSet |-> InstancePathMatch(raw)]

\* where a run meets the raw text: the stderr of a command that exited
\* nonzero, or the text of an exception caught by the top-level handler
FailurePaths == {"tool_failure", "exception"}

SanOperations == {s_status, s_start, s_stop}

SanZones == {"us-east4-a", "us-central1-b"}

\* the client-facing error outcome of a run, by mode and path:
\* execute_vm_operation lines 201-204, 259-268 and 280-287,
\* execute_operation_json lines 463-485, 530-537 and 545-561
error_outcome(mode, operation, path, raw, zone) ==
    IF mode = "sse"
    THEN IF path = "exception"
         THEN stream_exception_event(raw)
         ELSE stream_failure_event(raw)
    ELSE IF path = "exception"
         THEN json_exception(raw)
         ELSE IF operation = s_status
              THEN json_status_failure(raw, zone)
              ELSE json_failure(raw)

SanInit ==
    /\ LifeOff
    /\ ModeOff
    /\ HistOff
    /\ LogOff
    /\ SseOff
    /\ \E mode \in Modes, operation \in SanOperations, path \in FailurePaths,
          zone \in SanZones, r1 \in RawIds, r2 \in RawIds :
          sr = [pc |-> "san", mode |-> mode, operation |-> operation,
                path |-> path, zone |-> zone, r1 |-> r1, r2 |-> r2,
                out1 |-> <<>>, out2 |-> <<>>]
    /\ NameOff
    /\ ExecOff
    /\ CacheOff

\* the first run reaches its error outcome
San_First ==
    /\ sr.pc = "san"
    /\ sr.out1 = <<>>
    /\ sr' = [sr EXCEPT !.out1 = <<error_outcome(sr.mode, sr.operation, sr.path,
                                                 RawTexts[sr.r1], sr.zone)>>]
    /\ UNCHANGED <<logVars, histVars, modeVars, lifeVars, sseVars, nameVars, execVars, cacheVars>>

\* the second run reaches its error outcome
San_Second ==
    /\ sr.pc = "san"
    /\ sr.out2 = <<>>
    /\ sr' = [sr EXCEPT !.out2 = <<error_outcome(sr.mode, sr.operation, sr.path,
                                                 RawTexts[sr.r2], sr.zone)>>]
    /\ UNCHANGED <<logVars, histVars, modeVars, lifeVars, sseVars, nameVars, execVars, cacheVars>>

SanNext ==
    \/ San_First
    \/ San_Second

SpecSanitize == SanInit /\ [][SanNext]_vars

BothRuns == sr.pc = "san" /\ sr.out1 # <<>> /\ sr.out2 # <<>>

\* the two raw texts are in the same pattern class and name the same instance
SameClassSameInstance ==
    /\ PatternClassOf[RawTexts[sr.r1]] = PatternClassOf[RawTexts[sr.r2]]
    /\ InstancePathOf[RawTexts[sr.r1]] = InstancePathOf[RawTexts[sr.r2]]

\* the message of an outcome, event payload or HTTP detail
PayloadOf(out) == IF sr.mode = "sse" THEN out.data ELSE out.detail

\* the only parts of a payload that vary: the instance a pattern extracted
\* and the zone of the request, never the raw text
FixedPayload(out, raw) ==
    /\ PayloadOf(out).msg \in
          {"vm_not_found", "insufficient_permissions", "generic_failure",
           "resource_not_found"}
    /\ PayloadOf(out).a \in
          {<<>>, s_the_specified_vm, InstancePathOf[raw], ResourceMatchOf[raw]}
    /\ PayloadOf(out).b \in {<<>>, <<sr.zone>>}

-----------------------------------------------------------------------------
(* SpecCache: the VM directory.  An update_cache coroutine runs on the     *)
(* event loop, one step per stretch of code between two awaits; lookups    *)
(* and the clock run between those steps.  The history variable obs holds  *)
(* what the latest step observed.                                          *)

\* how many update_cache coroutines are in progress at once
MaxRunning == 1
\* how many scheduled refreshes wait for the event loop at once
MaxScheduled == 2
\* the last half hour of the clock
MaxNow == 3

\* what the zone listing prints when it succeeds
CloudZones == <<"us-east4-a", "us-central1-b">>

\* the instances of each zone
InstancesIn(zone) == IF zone = "us-east4-a" THEN <<s_vm1>> ELSE <<s_guedfocnlq03>>

s_Vm1 == <<"V","m","1">>
s_xvm1 == <<"x","v","m","1">>
s_vm == <<"v","m">>
s_x_vm1 == <<"x",".","v","m","1">>

\* names a lookup is made with: the empty name, names in several cases, a
\* name that holds a key, a name a key holds, and a name with a domain
LookupNames ==
    {<<>>, s_vm1, s_VM1, s_guedfocnlq03, s_otherhost, s_xvm1, s_vm, s_x_vm1}

NoObservations == [kind |-> "none"]

CacheInit ==
    /\ LifeOff
    /\ ModeOff
    /\ HistOff
    /\ LogOff
    /\ SseOff
    /\ vm_zone_map \in {<<>>, DirFull}
    /\ vm_cache = <<>>
    /\ \E age \in Ages : last_update = age[1] /\ now = age[2]
    /\ refresh = <<>>
    /\ scheduled = 0
    /\ cache_file = NoFile
    /\ obs = NoObservations
    /\ NameOff
    /\ SanOff
    /\ ExecOff

\* time passes
Tick ==
    /\ now < MaxNow
    /\ now' = now + 1
    /\ obs' = NoObservations
    /\ attempts' = [attempts EXCEPT !.cooled = TRUE]
    /\ UNCHANGED lock_use
    /\ UNCHANGED <<vm_zone_map, vm_cache, last_update, refresh, scheduled, cache_file>>
    /\ UNCHANGED <<logVars, modeVars, lifeVars, sseVars, nameVars, sanVars, execVars>>

\* VMCache.get_vm_zone(vm_name), called between two steps of the event loop;
\* a coroutine in progress remembers the mapping the lookup read
get_vm_zone_call(vm_name) ==
        LET n == get_vm_zone_schedules(vm_zone_map, last_update, now, vm_name)
        IN  /\ scheduled + n <= MaxScheduled
            /\ scheduled' = scheduled + n
            /\ refresh' = [i \in DOMAIN refresh |->
                              [refresh[i] EXCEPT !.seen = <<vm_zone_map>>]]
            /\ obs' = [kind |-> "lookup",
                       vm_name |-> vm_name,
                       zone |-> get_vm_zone_result(vm_zone_map, vm_name),
                       scheduled |-> n]
            /\ UNCHANGED <<vm_zone_map, vm_cache, last_update, now, cache_file>>
            /\ UNCHANGED <<logVars, histVars, modeVars, lifeVars, sseVars, nameVars, sanVars, execVars>>

\* a lookup of a name without dots, or of one with a dot in it
get_vm_zone == \E vm_name \in LookupNames : get_vm_zone_call(vm_name)

\* who runs an update_cache coroutine: a task of its own (get_vm_zone's
\* create_task), a caller that awaits it, initialize (line 45), lifespan
\* (fastserver line 43) or the _periodic_refresh task number id (line 84)
Owner(by, id) == [by |-> by, id |-> id]

\* update_cache, lines 144-160: the locals of a coroutine that reached its
\* first await, called on the mapping d
NewRefresh(owner, d) ==
    [pc |-> "zones_exec", zones |-> <<>>, before |-> d, seen |-> <<>>,
     stored |-> FALSE, owner |-> owner, listed |-> FALSE, scanned |-> <<>>,
     exits |-> <<>>]

\* a _periodic_refresh task that asyncio.create_task has just created
NewTask == [pc |-> "created", cancel |-> FALSE, logged |-> <<>>, restart |-> FALSE]

\* VMCache.start_refresh_task on the fields refresh_task and the tasks
\* created so far
start_refresh_task(task, ts) ==
    IF task # 0
    THEN [refresh_task |-> task, tasks |-> ts]
    ELSE [refresh_task |-> Len(ts) + 1, tasks |-> Append(ts, NewTask)]

\* directory state is written by the named method, with VMCache.lock held or
\* not
Write(by, held) == [lock_use EXCEPT !.by = by, !.held = held]

\* a refresh launches an external command, with VMCache.lock held or not
ExternalCall(held) ==
    [lock_use EXCEPT !.call = IF held THEN "locked" ELSE "unlocked"]

\* at least the cooldown of line 89 lies between the latest refresh attempt
\* and one that owner starts now: there was no attempt before, or time has
\* passed since, or the attempt is one of _periodic_refresh, which sleeps 30
\* seconds after an attempt, line 89, and at least 60 seconds before the
\* next, lines 72-79, and the latest attempt was not scheduled by a lookup
\* during those sleeps
Separated(owner) ==
    \/ attempts.last = "none"
    \/ attempts.cooled
    \/ owner.by \in {"loop", "awaited"} /\ attempts.last # "task"

\* initialize, line 48, then lifespan, lines 38-51: the loop is started, and
\* a directory d without entries is refreshed once more before the server
\* is declared ready; rest are the coroutines still running, a is lifespan
\* with what it did up to here
AfterInitialize(rest, d, a) ==
    LET started == start_refresh_task(refresh_task, tasks)
    IN  /\ refresh_task' = started.refresh_task
        /\ tasks' = started.tasks
        /\ IF Len(d) = 0
           THEN /\ refresh' = Append(rest, NewRefresh(Owner("lifespan", 0), d))
                /\ attempts' = [last |-> "lifespan", cooled |-> FALSE,
                                close |-> ~Separated(Owner("lifespan", 0))]
                /\ app' = [a EXCEPT !.pc = "forced_refresh",
                                    !.log = a.log \o <<"loop_started">>]
           ELSE /\ refresh' = rest
                /\ UNCHANGED attempts
                /\ app' = [a EXCEPT !.pc = "serving",
                                    !.log = a.log \o <<"loop_started">>]

\* asyncio: a coroutine of a task whose cancellation was requested takes no
\* further step of its own; the task's next resumption raises CancelledError
CanRun(i) ==
    refresh[i].owner.by = "loop" => ~tasks[refresh[i].owner.id].cancel

\* update_cache, lines 144-160: the call, up to the first await; the mapping
\* is emptied in place, without the lock
update_cache_call(owner) ==
    /\ vm_zone_map' = <<>>
    /\ refresh' = Append(refresh, NewRefresh(owner, vm_zone_map))
    /\ obs' = NoObservations
    /\ lock_use' = Write("update_cache", FALSE)
    /\ attempts' = [last |-> owner.by, cooled |-> FALSE,
                    close |-> ~Separated(owner)]

\* a refresh scheduled with asyncio.create_task starts
U_StartScheduled ==
    /\ scheduled > 0
    /\ Len(refresh) < MaxRunning
    /\ scheduled' = scheduled - 1
    /\ update_cache_call(Owner("task", 0))
    /\ UNCHANGED <<vm_cache, last_update, now, cache_file>>
    /\ UNCHANGED <<logVars, modeVars, lifeVars, sseVars, nameVars, sanVars, execVars>>

\* _periodic_refresh, line 83, and initialize, line 44: await update_cache()
U_StartAwaited ==
    /\ Len(refresh) < MaxRunning
    /\ update_cache_call(Owner("awaited", 0))
    /\ UNCHANGED <<vm_cache, last_update, now, scheduled, cache_file>>
    /\ UNCHANGED <<logVars, modeVars, lifeVars, sseVars, nameVars, sanVars, execVars>>

\* the sequence without its i-th item
Without(seq, i) == SubSeq(seq, 1, i - 1) \o SubSeq(seq, i + 1, Len(seq))

\* update_cache returns: the coroutine is gone; the history keeps the mapping
\* it started from, the one the latest lookup read while it ran and whether
\* it stored a VM. Whoever awaited the coroutine goes on in the same step,
\* with the mapping d the refresh leaves: initialize to line 48, lifespan to
\* its yield, the _periodic_refresh task to its sleep of line 89. exits is how
\* the listing of each scanned zone ended
update_cache_return(i, stored, d, exits) ==
    /\ obs' = [kind |-> "returned",
               before |-> refresh[i].before,
               seen |-> refresh[i].seen,
               stored |-> stored,
               listed |-> refresh[i].listed,
               scanned |-> IF refresh[i].pc = "scan_communicate"
                           THEN Append(refresh[i].scanned, Head(refresh[i].zones))
                           ELSE refresh[i].scanned,
               exits |-> exits]
    /\ LET o == refresh[i].owner
           rest == Without(refresh, i)
       IN  CASE o.by = "initialize" ->
                    AfterInitialize(rest, d,
                                    [app EXCEPT !.log = @ \o <<"refreshed">>])
             [] o.by = "lifespan" ->
                    /\ refresh' = rest
                    /\ app' = [app EXCEPT !.pc = "serving"]
                    /\ UNCHANGED <<refresh_task, tasks, attempts>>
             [] o.by = "loop" ->
                    /\ refresh' = rest
                    /\ tasks' = [tasks EXCEPT ![o.id].pc = "sleep30"]
                    /\ UNCHANGED <<refresh_task, app, attempts>>
             [] OTHER ->
                    /\ refresh' = rest
                    /\ UNCHANGED <<lifeVars, attempts>>

\* update_cache, lines 156-160: create_subprocess_exec of the zone listing
\* returns, or raises into the except branch of line 228
U_ZonesExec ==
    \E i \in DOMAIN refresh :
        /\ refresh[i].pc = "zones_exec"
        /\ CanRun(i)
        /\ \E launched \in BOOLEAN :
              IF launched
              THEN /\ refresh' = [refresh EXCEPT ![i].pc = "zones_communicate"]
                   /\ obs' = NoObservations
                   /\ UNCHANGED <<lifeVars, attempts>>
              ELSE update_cache_return(i, refresh[i].stored, vm_zone_map, refresh[i].exits)
        /\ lock_use' = ExternalCall(FALSE)
        /\ UNCHANGED <<vm_zone_map, vm_cache, last_update, now, scheduled, cache_file>>
        /\ UNCHANGED <<logVars, modeVars, sseVars, nameVars, sanVars, execVars>>

\* update_cache, lines 161-186: the zone listing has exited; on a nonzero
\* exit or an empty list the refresh returns, else the first zone's listing
\* is launched
U_ZonesCommunicate ==
    \E i \in DOMAIN refresh :
        /\ refresh[i].pc = "zones_communicate"
        /\ CanRun(i)
        /\ \E zones \in {<<>>, CloudZones}, returncode \in {0, 1} :
              IF returncode # 0 \/ zones = <<>>
              THEN update_cache_return(i, refresh[i].stored, vm_zone_map, refresh[i].exits)
              ELSE /\ refresh' = [refresh EXCEPT ![i].pc = "scan_exec",
                                                 ![i].zones = zones,
                                                 ![i].listed = TRUE]
                   /\ obs' = NoObservations
                   /\ UNCHANGED <<lifeVars, attempts>>
        /\ UNCHANGED <<vm_zone_map, vm_cache, last_update, now, scheduled, cache_file,
                       lock_use>>
        /\ UNCHANGED <<logVars, modeVars, sseVars, nameVars, sanVars, execVars>>

\* update_cache, lines 182-187: create_subprocess_exec of a zone's instance
\* listing returns, or raises into the except branch
U_ScanExec ==
    \E i \in DOMAIN refresh :
        /\ refresh[i].pc = "scan_exec"
        /\ CanRun(i)
        /\ \E launched \in BOOLEAN :
              IF launched
              THEN /\ refresh' = [refresh EXCEPT ![i].pc = "scan_communicate"]
                   /\ obs' = NoObservations
                   /\ UNCHANGED <<lifeVars, attempts>>
              ELSE update_cache_return(i, refresh[i].stored, vm_zone_map, refresh[i].exits)
        /\ lock_use' = ExternalCall(FALSE)
        /\ UNCHANGED <<vm_zone_map, vm_cache, last_update, now, scheduled, cache_file>>
        /\ UNCHANGED <<logVars, modeVars, sseVars, nameVars, sanVars, execVars>>

RECURSIVE StoreVms(_, _, _)
\* update_cache, lines 196-201: every VM of the output is stored
StoreVms(d, vms, zone) ==
    IF vms = <<>> THEN d
    ELSE StoreVms(StoreVm(d, Head(vms), zone), Tail(vms), zone)

\* VMCache._save_to_pickle
save_to_pickle(d, clock) == [kind |-> "pickle", vm_zone_map |-> d, timestamp |-> clock]

\* update_cache, lines 188-218: a zone's listing has exited; its VMs are
\* stored unless it failed; after the last zone last_update is set and a
\* non-empty mapping is written to the snapshot file
U_ScanCommunicate ==
    \E i \in DOMAIN refresh :
        /\ refresh[i].pc = "scan_communicate"
        /\ CanRun(i)
        /\ \E returncode \in {0, 1}, found \in BOOLEAN :
              LET zone == Head(refresh[i].zones)
                  vms == IF returncode = 0 /\ found THEN InstancesIn(zone) ELSE <<>>
                  d == StoreVms(vm_zone_map, vms, zone)
                  rest == Tail(refresh[i].zones)
                  stored == refresh[i].stored \/ vms # <<>>
                  exits == Append(refresh[i].exits,
                                  IF returncode # 0 THEN "failed"
                                  ELSE IF found THEN "found" ELSE "empty")
              IN  /\ vm_zone_map' = d
                  /\ lock_use' = IF vms # <<>> \/ rest = <<>>
                                 THEN Write("update_cache", FALSE)
                                 ELSE lock_use
                  /\ IF rest # <<>>
                     THEN /\ refresh' = [refresh EXCEPT ![i].pc = "scan_exec",
                                                        ![i].zones = rest,
                                                        ![i].stored = stored,
                                                        ![i].scanned = Append(@, zone),
                                                        ![i].exits = exits]
                          /\ obs' = NoObservations
                          /\ UNCHANGED <<last_update, cache_file>>
                          /\ UNCHANGED <<lifeVars, attempts>>
                     ELSE /\ last_update' = now
                          /\ cache_file' = IF d # <<>> THEN save_to_pickle(d, now)
                                           ELSE cache_file
                          /\ update_cache_return(i, stored, d, exits)
        /\ UNCHANGED <<vm_cache, now, scheduled>>
        /\ UNCHANGED <<logVars, modeVars, sseVars, nameVars, sanVars, execVars>>

CacheNext ==
    \/ Tick
    \/ get_vm_zone
    \/ U_StartScheduled
    \/ U_StartAwaited
    \/ U_ZonesExec
    \/ U_ZonesCommunicate
    \/ U_ScanExec
    \/ U_ScanCommunicate

SpecCache == CacheInit /\ [][CacheNext]_vars

\* a refresh has just returned
Returned == obs.kind = "returned"

\* C8: a lookup that runs while a refresh is in progress reads either the
\* complete mapping from before the refresh or the complete mapping the
\* refresh produces, never an empty or partly filled one.
C8_LookupSeesBeforeOrAfter ==
    (Returned /\ obs.seen # <<>>) =>
        obs.seen[1] \in {obs.before, vm_zone_map}

\* C9: a refresh that produces an empty mapping (the zone listing fails, no
\* zone is returned, every zone fails or no VM is found) is discarded: when
\* it has returned, the live mapping is the one from before it started.
C9_EmptyRefreshDiscarded ==
    (Returned /\ ~obs.stored) => vm_zone_map = obs.before

-----------------------------------------------------------------------------
(* SpecScanner: VMScanner sweeps, which replace vm_cache through           *)
(* VMCache.update.  The application does not start a VMScanner, so its     *)
(* sweeps are modelled on their own.                                       *)

\* the record VMScanner.update_vm_cache builds for an instance
VmRecord(zone) == [zone |-> zone, status |-> "RUNNING", project |-> "p1"]

\* the directories a sweep can build: one entry per instance found in the
\* zones whose listing succeeded
ScannerCaches ==
    { <<>>,
      DictSet(<<>>, s_vm1, VmRecord("us-east4-a")),
      DictSet(<<>>, s_guedfocnlq03, VmRecord("us-central1-b")),
      DictSet(DictSet(<<>>, s_vm1, VmRecord("us-east4-a")),
              s_guedfocnlq03, VmRecord("us-central1-b")) }

\* VMCache.save_to_disk
save_to_disk(file, cache, updated) ==
    IF cache = <<>> THEN file
    ELSE [kind |-> "disk", vm_cache |-> cache, timestamp |-> updated]

ScannerInit ==
    /\ LifeOff
    /\ ModeOff
    /\ HistOff
    /\ LogOff
    /\ SseOff
    /\ vm_zone_map = <<>>
    /\ vm_cache = <<>>
    /\ last_update = DatetimeMin
    /\ now = 0
    /\ refresh = <<>>
    /\ scheduled = 0
    /\ cache_file = NoFile
    /\ obs = NoObservations
    /\ NameOff
    /\ SanOff
    /\ ExecOff

\* VMScanner.update_vm_cache: a sweep; without a project it returns at line
\* 52, else what it found replaces vm_cache under the lock (VMCache.update)
\* and save_to_disk follows
update_vm_cache ==
    \E project_found \in BOOLEAN, new_cache \in ScannerCaches :
        /\ IF ~project_found
           THEN UNCHANGED <<vm_cache, last_update, cache_file, lock_use>>
           ELSE /\ vm_cache' = new_cache
                /\ last_update' = now
                /\ lock_use' = Write("update", TRUE)
                /\ cache_file' = save_to_disk(cache_file, new_cache, now)
        /\ obs' = [kind |-> "sweep", before |-> vm_cache,
                   updated |-> project_found, found |-> new_cache]
        /\ UNCHANGED <<vm_zone_map, now, refresh, scheduled, attempts>>
        /\ UNCHANGED <<logVars, modeVars, lifeVars, sseVars, nameVars, sanVars, execVars>>

\* the names update_vm_status is called with: two VMs a sweep can find and a
\* name no sweep finds
StatusNames == {s_vm1, s_guedfocnlq03, s_otherhost}

\* the statuses update_vm_status is called with
Statuses == {"RUNNING", "TERMINATED"}

\* VMCache.update_vm_status, lines 402-408: under the lock, the status field
\* of the record of vm_name is assigned in place when the directory has the
\* name; the other fields, the other records, last_update and the snapshot
\* file are not touched
update_vm_status ==
    \E vm_name \in StatusNames, status \in Statuses :
        /\ IF DictHas(vm_cache, vm_name)
           THEN /\ vm_cache' = DictSet(vm_cache, vm_name,
                                       [DictGet(vm_cache, vm_name)
                                            EXCEPT !.status = status])
                /\ lock_use' = Write("update_vm_status", TRUE)
           ELSE UNCHANGED <<vm_cache, lock_use>>
        /\ obs' = [kind |-> "status", before |-> vm_cache, vm_name |-> vm_name,
                   status |-> status, result |-> DictHas(vm_cache, vm_name)]
        /\ UNCHANGED <<vm_zone_map, last_update, cache_file, now, refresh, scheduled,
                       attempts>>
        /\ UNCHANGED <<logVars, modeVars, lifeVars, sseVars, nameVars, sanVars, execVars>>

ScannerNext ==
    \/ Tick
    \/ update_vm_cache
    \/ update_vm_status

SpecScanner == ScannerInit /\ [][ScannerNext]_vars

\* a sweep that found nothing leaves the directory of VM records as it was
EmptySweepDiscarded ==
    (obs.kind = "sweep" /\ obs.updated /\ obs.found = <<>>) => vm_cache = obs.before

-----------------------------------------------------------------------------
(* SpecLookup: VMCache.get_vm_zone on the directories a refresh can build. *)

s_vm2 == <<"v","m","2">>

\* directories as update_cache builds them (lines 197-201): empty, one VM
\* with a lowercase name, one VM with a name in mixed case, two VMs, a name
\* found in two zones, three VMs
LookupDirs ==
    { <<>>,
      StoreVm(<<>>, s_vm1, "us-east4-a"),
      StoreVm(<<>>, s_Vm1, "us-east4-a"),
      DirFull,
      StoreVm(StoreVm(<<>>, s_vm1, "us-east4-a"), s_vm1, "us-central1-b"),
      StoreVm(DirFull, s_vm2, "us-east4-a") }

LookupInit ==
    /\ LifeOff
    /\ ModeOff
    /\ HistOff
    /\ LogOff
    /\ SseOff
    /\ vm_zone_map \in LookupDirs
    /\ vm_cache = <<>>
    /\ \E age \in Ages : last_update = age[1] /\ now = age[2]
    /\ refresh = <<>>
    /\ scheduled = 0
    /\ cache_file = NoFile
    /\ obs = NoObservations
    /\ NameOff
    /\ SanOff
    /\ ExecOff

\* names with a domain suffix: a cached name, a name in capitals, a name
\* that is not cached, and a name that is a suffix only
s_vm1_ibi == <<"v","m","1",".","i","b","i">>
s_VM1_ibi == <<"V","M","1",".","i","b","i">>
s_otherhost_ibi == <<"o","t","h","e","r","h","o","s","t",".","i","b","i">>
s_dot_ibi == <<".","i","b","i">>
SuffixedNames == {s_vm1_ibi, s_VM1_ibi, s_otherhost_ibi, s_dot_ibi}

\* VMCache.get_vm_zone(vm_name) with a name that has a domain suffix
get_vm_zone_suffixed == \E vm_name \in SuffixedNames : get_vm_zone_call(vm_name)

LookupNext ==
    \/ Tick
    \/ get_vm_zone
    \/ get_vm_zone_suffixed

SpecLookup == LookupInit /\ [][LookupNext]_vars

\* a lookup has just returned
LookedUp == obs.kind = "lookup"

\* C11: lookup is case-insensitive: when a refresh found a VM n (so that the
\* lowercase form of n is a key), a lookup with any case variant of n returns
\* the zone stored for n.
C11_LookupCaseInsensitive ==
    (LookedUp /\ obs.vm_name # <<>> /\ DictHas(vm_zone_map, Lower(obs.vm_name))) =>
        obs.zone = DictGet(vm_zone_map, Lower(obs.vm_name))

\* an upper-case name found its lowercase key
C11_Witness ==
    /\ LookedUp
    /\ obs.vm_name = s_VM1
    /\ ~DictHas(vm_zone_map, s_VM1)
    /\ obs.zone = "us-east4-a"

\* the zones of the keys that hold the name or that the name holds
PartialZones(d, name) ==
    {d[i].v : i \in {j \in DOMAIN d : \/ IsSubstring(name, d[j].k)
                                       \/ IsSubstring(d[j].k, name)}}

\* C12 as stated: when neither the requested name nor its lowercase form is a
\* key, the lookup returns the zone of a key that holds the requested name or
\* that the requested name holds, and None only when there is no such key.
C12_SubstringFallback ==
    (/\ LookedUp
     /\ ~DictHas(vm_zone_map, obs.vm_name)
     /\ ~DictHas(vm_zone_map, Lower(obs.vm_name))) =>
        IF PartialZones(vm_zone_map, obs.vm_name) # {}
        THEN obs.zone \in PartialZones(vm_zone_map, obs.vm_name)
        ELSE obs.zone = None

\* C12 amended: the same for a non-empty requested name, with the name
\* reduced to its part before the first dot; an empty name is not found.
C12_SubstringFallbackOnCleanName ==
    LookedUp =>
        LET clean == SplitFirst(obs.vm_name)
        IN  IF obs.vm_name = <<>> THEN obs.zone = None
            ELSE (/\ ~DictHas(vm_zone_map, clean)
                  /\ ~DictHas(vm_zone_map, Lower(clean))) =>
                     IF PartialZones(vm_zone_map, clean) # {}
                     THEN obs.zone \in PartialZones(vm_zone_map, clean)
                     ELSE obs.zone = None

\* "xvm1" found the zone of the key "vm1" it holds
C12_Witness ==
    /\ LookedUp
    /\ obs.vm_name = s_xvm1
    /\ vm_zone_map = StoreVm(<<>>, s_vm1, "us-east4-a")
    /\ obs.zone = "us-east4-a"

\* C17: a lookup miss schedules a refresh if and only if the directory is
\* empty or was refreshed more than 30 minutes ago; a miss on a directory
\* with one entry or more, refreshed in the last 30 minutes, schedules none.
C17_MissSchedulesIffEmptyOrOld ==
    (LookedUp /\ obs.vm_name # <<>> /\ obs.zone = None) =>
        (obs.scheduled > 0 <=> \/ vm_zone_map = <<>>
                               \/ now - last_update > MissRefreshHalfHours)

-----------------------------------------------------------------------------
(* Lookups on a stale directory, under SpecCache.                          *)

\* the directory is older than the max age
Stale == now - last_update > MaxAgeHalfHours

\* the step is a lookup that left no coroutine further than it was and the
\* mapping as it was, and answered from that mapping
AnsweredWithoutRefresh ==
    /\ obs'.zone = get_vm_zone_result(vm_zone_map, obs'.vm_name)
    /\ vm_zone_map' = vm_zone_map
    /\ last_update' = last_update
    /\ Len(refresh') = Len(refresh)
    /\ \A i \in DOMAIN refresh : refresh'[i].pc = refresh[i].pc

-----------------------------------------------------------------------------
(* SpecSnapshot: the two persist/load pairs on the snapshot file.  One     *)
(* instance holds the directory and persists it; a fresh instance loads.   *)
(* The clock only moves forward, so the file's modification time is never  *)
(* before the timestamp stored in it, and the modification-time test of    *)
(* load_from_disk (lines 271-276) refuses nothing the timestamp test of    *)
(* lines 287-290 would accept.                                             *)

\* _load_from_pickle, line 123: 3600 seconds, in half hours
PickleMaxAgeHalfHours == 2

\* _load_from_pickle with the age test left out
load_from_pickle_any_age(file, clock, d, updated) ==
    IF file = NoFile THEN [ok |-> FALSE, vm_zone_map |-> d, last_update |-> updated]
    ELSE [ok |-> TRUE,
          vm_zone_map |-> IF file.kind = "pickle" THEN file.vm_zone_map ELSE <<>>,
          last_update |-> file.timestamp]

\* a mutant of load_from_pickle: the mapping is read under the other key
load_from_pickle_other_key(file, clock, d, updated) ==
    IF file = NoFile THEN [ok |-> FALSE, vm_zone_map |-> d, last_update |-> updated]
    ELSE IF clock - file.timestamp < PickleMaxAgeHalfHours
         THEN [ok |-> TRUE,
               vm_zone_map |-> IF file.kind = "disk" THEN file.vm_cache ELSE <<>>,
               last_update |-> file.timestamp]
         ELSE [ok |-> FALSE, vm_zone_map |-> d, last_update |-> updated]

\* VMCache._load_from_pickle on an instance with mapping d, last updated at
\* updated: what it returns and leaves in vm_zone_map and last_update
load_from_pickle(file, clock, d, updated) ==
    IF file = NoFile THEN [ok |-> FALSE, vm_zone_map |-> d, last_update |-> updated]
    ELSE IF clock - file.timestamp < PickleMaxAgeHalfHours
         THEN [ok |-> TRUE,
               vm_zone_map |-> IF file.kind = "pickle" THEN file.vm_zone_map ELSE <<>>,
               last_update |-> file.timestamp]
         ELSE [ok |-> FALSE, vm_zone_map |-> d, last_update |-> updated]

\* VMCache.load_from_disk on an instance with directory cache: what it
\* returns and leaves in vm_cache and last_update
load_from_disk(file, clock, cache, updated) ==
    LET refused == [ok |-> FALSE, vm_cache |-> cache, last_update |-> updated]
    IN  IF file = NoFile THEN refused
        ELSE IF clock - file.timestamp > MaxAgeHalfHours THEN refused
        ELSE LET cached_vms == IF file.kind = "disk" THEN file.vm_cache ELSE <<>>
             IN  IF cached_vms = <<>> THEN refused
                 ELSE [ok |-> TRUE, vm_cache |-> cached_vms,
                       last_update |-> file.timestamp]

\* the instance that persists: a mapping a refresh built, a directory a sweep
\* built (a non-empty one was stored by VMCache.update, which set last_update)
SnapshotInit ==
    /\ LifeOff
    /\ ModeOff
    /\ HistOff
    /\ LogOff
    /\ SseOff
    /\ vm_zone_map \in LookupDirs
    /\ vm_cache \in ScannerCaches
    /\ \E age \in Ages : last_update = age[1] /\ now = age[2]
    /\ vm_cache # <<>> => last_update # DatetimeMin
    /\ refresh = <<>>
    /\ scheduled = 0
    /\ cache_file = NoFile
    /\ obs = NoObservations
    /\ NameOff
    /\ SanOff
    /\ ExecOff

\* VMCache._save_to_pickle()
P_save_to_pickle ==
    /\ cache_file' = save_to_pickle(vm_zone_map, now)
    /\ obs' = NoObservations
    /\ UNCHANGED <<vm_zone_map, vm_cache, last_update, now, refresh, scheduled>>
    /\ UNCHANGED <<logVars, histVars, modeVars, lifeVars, sseVars, nameVars, sanVars, execVars>>

\* VMCache.save_to_disk()
P_save_to_disk ==
    /\ cache_file' = save_to_disk(cache_file, vm_cache, last_update)
    /\ obs' = NoObservations
    /\ UNCHANGED <<vm_zone_map, vm_cache, last_update, now, refresh, scheduled>>
    /\ UNCHANGED <<logVars, histVars, modeVars, lifeVars, sseVars, nameVars, sanVars, execVars>>

\* VMCache(): the state after __init__, lines 29-31
FreshInstance == [vm_zone_map |-> <<>>, vm_cache |-> <<>>, last_update |-> DatetimeMin]

\* VMCache()._load_from_pickle(): a fresh instance loads the file
P_load_from_pickle ==
    /\ obs' = [kind |-> "loaded", by |-> "pickle",
               got |-> load_from_pickle(cache_file, now, FreshInstance.vm_zone_map,
                                        FreshInstance.last_update)]
    /\ lock_use' = IF obs'.got.ok THEN Write("_load_from_pickle", FALSE)
                   ELSE lock_use
    /\ UNCHANGED <<vm_zone_map, vm_cache, last_update, now, refresh, scheduled,
                   cache_file, attempts>>
    /\ UNCHANGED <<logVars, modeVars, lifeVars, sseVars, nameVars, sanVars, execVars>>

\* VMCache().load_from_disk(): a fresh instance loads the file
P_load_from_disk ==
    /\ obs' = [kind |-> "loaded", by |-> "disk",
               got |-> load_from_disk(cache_file, now, FreshInstance.vm_cache,
                                      FreshInstance.last_update)]
    /\ lock_use' = IF obs'.got.ok THEN Write("load_from_disk", TRUE)
                   ELSE lock_use
    /\ UNCHANGED <<vm_zone_map, vm_cache, last_update, now, refresh, scheduled,
                   cache_file, attempts>>
    /\ UNCHANGED <<logVars, modeVars, lifeVars, sseVars, nameVars, sanVars, execVars>>

SnapshotNext ==
    \/ Tick
    \/ P_save_to_pickle
    \/ P_save_to_disk
    \/ P_load_from_pickle
    \/ P_load_from_disk

SpecSnapshot == SnapshotInit /\ [][SnapshotNext]_vars

\* a fresh instance has just loaded the file with the given loader
Loaded(by) == obs.kind = "loaded" /\ obs.by = by

-----------------------------------------------------------------------------
(* Requests with an unknown operation name, under Spec.                    *)

\* the operation names of the request surface
KnownOperations == {s_status, s_start, s_stop, s_suspend, s_resume}

\* C20: a request through the endpoint whose operation name is not status,
\* start, stop, suspend or resume is rejected with HTTP 400 and nothing else
\* ever happens for it, in either response mode: no canonical name is
\* computed, no directory lookup is made and no refresh scheduled, no audit
\* row is written, no command is launched and no event is emitted.
C20_UnknownOperationRejectedFirst ==
    (req.via = "endpoint" /\ req.operation \notin KnownOperations) =>
        /\ pc = "rejected"
        /\ response = HTTPException(400, MsgInvalidOperationValidAre(req.operation))
        /\ loc = NoLocals
        /\ scheduled = 0
        /\ audit = <<>>
        /\ extCalls = <<>>
        /\ proc = NoProcess
        /\ events = <<>>

\* 'restart' for a VM outside the allow-list, as JSON: rejected
C20_Witness ==
    /\ req.via = "endpoint"
    /\ req.mode = "json"
    /\ req.operation = s_restart
    /\ req.vmname = s_otherhost
    /\ pc = "rejected"
    /\ response.status_code = 400

-----------------------------------------------------------------------------
(* SpecSse: SSEManager.  One operation's event list, the producers that    *)
(* fill it and one subscription, stream_events, one action per stretch of  *)
(* its code between two points where the generator is suspended.  A        *)
(* producer adds progress updates and then completes the operation once,   *)
(* with add_event or with add_completion_event, and adds nothing after.    *)

\* how many times the producers add to the operation's list
MaxAdds == 3

\* SSEEvent(data=data, event=event_type); the uuid is left out
SSEEvent(data, event) == [event |-> event, data |-> data]

\* SSEEvent.encode(): the id, event and data lines
encode(e) == [event |-> e.event, data |-> e.data]

\* e.event in ["success", "error"]
IsCompletion(e) == e.event \in {"success", "error"}

\* SSEManager.add_event
add_event(evs, event_type, data) == Append(evs, SSEEvent(data, event_type))

\* SSEManager.add_progress_update: the data is reduced to its progress
add_progress_update(evs, progress) == add_event(evs, "progress", progress)

\* SSEManager.add_completion_event
add_completion_event(evs, success) ==
    add_progress_update(add_event(evs, IF success THEN "success" ELSE "error", 0), 100)

SseInit ==
    /\ ModeOff
    /\ HistOff
    /\ LogOff
    /\ LifeOff
    /\ operation_events = <<>>
    /\ subscriber = [pc |-> "start", sent_events |-> 0, batch |-> <<>>,
                     delivered |-> <<>>, disconnected |-> FALSE]
    /\ NameOff
    /\ SanOff
    /\ ExecOff
    /\ CacheOff

\* the operation is not completed yet and the producers may add
Producing ==
    /\ \A i \in DOMAIN operation_events : ~IsCompletion(operation_events[i])
    /\ Len(operation_events) < MaxAdds

\* a producer calls add_progress_update
Sse_add_progress_update ==
    /\ Producing
    /\ operation_events' = add_progress_update(operation_events,
                                               Len(operation_events) + 1)
    /\ UNCHANGED subscriber
    /\ UNCHANGED <<logVars, histVars, modeVars, lifeVars, nameVars, sanVars, execVars, cacheVars>>

\* a producer completes the operation with add_event
Sse_add_event ==
    /\ Producing
    /\ \E event_type \in {"success", "error"} :
          operation_events' = add_event(operation_events, event_type, 0)
    /\ UNCHANGED subscriber
    /\ UNCHANGED <<logVars, histVars, modeVars, lifeVars, nameVars, sanVars, execVars, cacheVars>>

\* a producer completes the operation with add_completion_event
Sse_add_completion_event ==
    /\ Producing
    /\ \E success \in BOOLEAN :
          operation_events' = add_completion_event(operation_events, success)
    /\ UNCHANGED subscriber
    /\ UNCHANGED <<logVars, histVars, modeVars, lifeVars, nameVars, sanVars, execVars, cacheVars>>

\* the client goes away
Sse_Disconnect ==
    /\ subscriber.pc \notin {"off", "done"}
    /\ ~subscriber.disconnected
    /\ subscriber' = [subscriber EXCEPT !.disconnected = TRUE]
    /\ UNCHANGED operation_events
    /\ UNCHANGED <<logVars, histVars, modeVars, lifeVars, nameVars, sanVars, execVars, cacheVars>>

\* stream_events, lines 130-137: the connection event is yielded
SE_Connected ==
    /\ subscriber.pc = "start"
    /\ subscriber' = [subscriber EXCEPT
           !.pc = "yield_connected",
           !.delivered = Append(@, encode(SSEEvent(0, "connected")))]
    /\ UNCHANGED operation_events
    /\ UNCHANGED <<logVars, histVars, modeVars, lifeVars, nameVars, sanVars, execVars, cacheVars>>

\* stream_events, lines 152-164, after the for loop with sent events sent:
\* break on a completion event as the last one sent, else on to the await of
\* request.is_disconnected()
AfterBatch(sent) ==
    IF sent > 0 /\ IsCompletion(operation_events[sent]) THEN "done"
    ELSE "is_disconnected"

\* stream_events, lines 143-150: the generator resumes after the connection
\* event or after the sleep, takes the slice of the new events and yields the
\* first of them, if there is one
SE_Poll ==
    /\ subscriber.pc \in {"yield_connected", "sleep"}
    /\ LET new == SubSeq(operation_events, subscriber.sent_events + 1,
                         Len(operation_events))
       IN  IF new # <<>>
           THEN subscriber' = [subscriber EXCEPT
                    !.pc = "yield_event",
                    !.batch = Tail(new),
                    !.delivered = Append(@, encode(Head(new)))]
           ELSE subscriber' = [subscriber EXCEPT
                    !.pc = AfterBatch(subscriber.sent_events)]
    /\ UNCHANGED operation_events
    /\ UNCHANGED <<logVars, histVars, modeVars, lifeVars, nameVars, sanVars, execVars, cacheVars>>

\* stream_events, lines 148-156: the generator resumes after the yield of an
\* event, counts it and yields the next event of the slice, if there is one
SE_Sent ==
    /\ subscriber.pc = "yield_event"
    /\ IF subscriber.batch # <<>>
       THEN subscriber' = [subscriber EXCEPT
                !.sent_events = @ + 1,
                !.batch = Tail(@),
                !.delivered = Append(@, encode(Head(subscriber.batch)))]
       ELSE subscriber' = [subscriber EXCEPT
                !.sent_events = @ + 1,
                !.pc = AfterBatch(subscriber.sent_events + 1)]
    /\ UNCHANGED operation_events
    /\ UNCHANGED <<logVars, histVars, modeVars, lifeVars, nameVars, sanVars, execVars, cacheVars>>

\* stream_events, lines 159-164: request.is_disconnected() has answered
SE_Checked ==
    /\ subscriber.pc = "is_disconnected"
    /\ subscriber' = [subscriber EXCEPT
           !.pc = IF subscriber.disconnected THEN "done" ELSE "sleep"]
    /\ UNCHANGED operation_events
    /\ UNCHANGED <<logVars, histVars, modeVars, lifeVars, nameVars, sanVars, execVars, cacheVars>>

SseNext ==
    \/ Sse_add_progress_update
    \/ Sse_add_event
    \/ Sse_add_completion_event
    \/ Sse_Disconnect
    \/ SE_Connected
    \/ SE_Poll
    \/ SE_Sent
    \/ SE_Checked

SpecSse == SseInit /\ [][SseNext]_vars

\* the events delivered after the connection event
Delivered == Tail(subscriber.delivered)

\* the executor's generator, under Spec: the terminal event is the last event
ExecutorTerminalEventLast == \A i \in TerminalEvents : i = Len(events)

\* C14: the events of one operation's stream are in order, and the terminal
\* event (success or error) is unique and last: nothing is enqueued after it
\* and nothing is delivered after it.
C14_TerminalEventLastAndUnique ==
    /\ \A i \in DOMAIN operation_events :
          IsCompletion(operation_events[i]) => i = Len(operation_events)
    /\ subscriber.delivered # <<>> =>
          /\ Len(Delivered) <= Len(operation_events)
          /\ \A i \in DOMAIN Delivered : Delivered[i] = encode(operation_events[i])

\* C15: once the terminal event is delivered the subscription ends: nothing
\* is delivered after it and the generator, resumed from the yield that
\* delivered it, is done.
C15_SubscriptionEndsAfterTerminalEvent ==
    \A i \in DOMAIN subscriber.delivered :
        IsCompletion(subscriber.delivered[i]) =>
            /\ i = Len(subscriber.delivered)
            /\ subscriber.pc \in {"yield_event", "done"}


\* ---------------------------------------------------------------------
\* The life of the application: fastserver.lifespan around the VMCache of
\* line 81, VMCache.initialize, the _periodic_refresh task and shutdown.
\* Python 3.8 or later: asyncio.CancelledError is a BaseException, so the
\* "except Exception" clauses of update_cache and of _periodic_refresh,
\* line 85, do not catch it.
\* ---------------------------------------------------------------------

\* the snapshot files the application can find at startup: none, a directory
\* written half an hour or an hour before the earliest startup, the file a
\* shutdown with an empty directory leaves, and a file of save_to_disk
LifeFiles ==
    { NoFile,
      save_to_pickle(DirFull, 1),
      save_to_pickle(DirFull, 0),
      save_to_pickle(<<>>, 1),
      save_to_disk(NoFile, DictSet(<<>>, s_vm1, VmRecord("us-east4-a")), 1) }

\* the module is imported, VMCache() of fastserver line 81 is constructed and
\* lifespan has not run yet
LifeInit ==
    /\ ModeOff
    /\ HistOff
    /\ LogOff
    /\ SseOff
    /\ NameOff
    /\ SanOff
    /\ ExecOff
    /\ vm_zone_map = FreshInstance.vm_zone_map
    /\ vm_cache = FreshInstance.vm_cache
    /\ last_update = FreshInstance.last_update
    /\ now = 2
    /\ refresh = <<>>
    /\ scheduled = 0
    /\ cache_file \in LifeFiles
    /\ obs = NoObservations
    /\ refresh_task = 0
    /\ tasks = <<>>
    /\ app = [pc |-> "start", log |-> <<>>, snapshot |-> NoFile, started_at |-> 0]

\* lifespan, lines 35-37, and initialize, lines 38-45: the snapshot is loaded
\* and initialize goes on to line 48, or update_cache is called and awaited
A_Startup ==
    /\ app.pc = "start"
    /\ LET r == load_from_pickle(cache_file, now, vm_zone_map, last_update)
           found == [app EXCEPT !.snapshot = cache_file, !.started_at = now]
       IN  IF r.ok
           THEN /\ vm_zone_map' = r.vm_zone_map
                /\ last_update' = r.last_update
                /\ obs' = NoObservations
                /\ lock_use' = Write("_load_from_pickle", FALSE)
                /\ AfterInitialize(refresh, r.vm_zone_map,
                                   [found EXCEPT !.log = <<"loaded">>])
           ELSE /\ update_cache_call(Owner("initialize", 0))
                /\ app' = [found EXCEPT !.pc = "init_refresh"]
                /\ UNCHANGED <<last_update, refresh_task, tasks>>
    /\ UNCHANGED <<vm_cache, now, scheduled, cache_file>>
    /\ UNCHANGED <<logVars, modeVars, sseVars, nameVars, sanVars, execVars>>

\* _periodic_refresh, lines 61-79: the task runs for the first time, up to
\* its first sleep
T_Run ==
    \E k \in DOMAIN tasks :
        /\ tasks[k].pc = "created"
        /\ ~tasks[k].cancel
        /\ tasks' = [tasks EXCEPT ![k].pc = "sleep79"]
        /\ obs' = NoObservations
        /\ UNCHANGED <<refresh_task, app>>
        /\ UNCHANGED <<vm_zone_map, vm_cache, last_update, now, refresh, scheduled,
                       cache_file>>
        /\ UNCHANGED <<logVars, histVars, modeVars, sseVars, nameVars, sanVars, execVars>>

\* _periodic_refresh, lines 79-84: the sleep is over, update_cache is called
\* and awaited
T_Wake ==
    \E k \in DOMAIN tasks :
        /\ tasks[k].pc = "sleep79"
        /\ ~tasks[k].cancel
        /\ tasks' = [tasks EXCEPT ![k].pc = "update"]
        /\ update_cache_call(Owner("loop", k))
        /\ UNCHANGED <<refresh_task, app>>
        /\ UNCHANGED <<vm_cache, last_update, now, scheduled, cache_file>>
        /\ UNCHANGED <<logVars, modeVars, sseVars, nameVars, sanVars, execVars>>

\* _periodic_refresh, lines 89 and 63-79: the sleep of 30 seconds is over,
\* the loop goes round to its next sleep
T_Wake30 ==
    \E k \in DOMAIN tasks :
        /\ tasks[k].pc = "sleep30"
        /\ ~tasks[k].cancel
        /\ tasks' = [tasks EXCEPT ![k].pc = "sleep79"]
        /\ obs' = NoObservations
        /\ attempts' = [attempts EXCEPT !.cooled = TRUE]
        /\ UNCHANGED lock_use
        /\ UNCHANGED <<refresh_task, app>>
        /\ UNCHANGED <<vm_zone_map, vm_cache, last_update, now, refresh, scheduled,
                       cache_file>>
        /\ UNCHANGED <<logVars, modeVars, sseVars, nameVars, sanVars, execVars>>

\* the exceptions that reach the outer try of _periodic_refresh: update_cache
\* catches every Exception itself, line 230, and so does line 85; sleep and
\* logging raise none
LoopExceptions == {"CancelledError"}

\* the cancellation handler taken for any other exception: lines 93-96
periodic_refresh_except_restarts(task, exc) ==
    [task EXCEPT !.pc = "failed",
                 !.logged = <<"Cache refresh task failed with error">>,
                 !.restart = TRUE]

\* the handlers of the outer try without the restart of lines 95-96
periodic_refresh_except_no_restart(task, exc) ==
    IF exc = "CancelledError"
    THEN [task EXCEPT !.pc = "cancelled",
                      !.logged = <<"Cache refresh task was cancelled">>]
    ELSE [task EXCEPT !.pc = "failed",
                      !.logged = <<"Cache refresh task failed with error">>]

\* _periodic_refresh, lines 91-96: the handlers of the outer try
periodic_refresh_except(task, exc) ==
    IF exc = "CancelledError"
    THEN [task EXCEPT !.pc = "cancelled",
                      !.logged = <<"Cache refresh task was cancelled">>]
    ELSE [task EXCEPT !.pc = "failed",
                      !.logged = <<"Cache refresh task failed with error">>,
                      !.restart = TRUE]

\* the coroutines other than the one task k awaits
NotOf(k, r) == ~(r.owner.by = "loop" /\ r.owner.id = k)

\* asyncio: a task whose cancellation was requested is resumed with
\* CancelledError at the await it is suspended at; an update_cache coroutine
\* it awaits is abandoned where it is
T_Cancelled ==
    \E k \in DOMAIN tasks, exc \in LoopExceptions :
        /\ tasks[k].cancel
        /\ tasks[k].pc \in {"sleep79", "update", "sleep30"}
        /\ tasks' = [tasks EXCEPT ![k] = periodic_refresh_except(@, exc)]
        /\ refresh' = SelectSeq(refresh, LAMBDA r : NotOf(k, r))
        /\ obs' = NoObservations
        /\ UNCHANGED <<refresh_task, app>>
        /\ UNCHANGED <<vm_zone_map, vm_cache, last_update, now, scheduled, cache_file>>
        /\ UNCHANGED <<logVars, histVars, modeVars, sseVars, nameVars, sanVars, execVars>>

\* VMCache.stop_refresh_task on the fields refresh_task and the tasks
stop_refresh_task(task, ts) ==
    IF task # 0
    THEN [refresh_task |-> 0, tasks |-> [ts EXCEPT ![task].cancel = TRUE],
          log |-> <<"cancel">>]
    ELSE [refresh_task |-> task, tasks |-> ts, log |-> <<>>]

\* lifespan, lines 53-62: the server shuts down. A task made by create_task
\* has its first run when lifespan first suspends, which is before the
\* server can be told to stop
A_Shutdown ==
    /\ app.pc = "serving"
    /\ \A k \in DOMAIN tasks : tasks[k].pc # "created"
    /\ LET stopped == stop_refresh_task(refresh_task, tasks)
       IN  /\ refresh_task' = stopped.refresh_task
           /\ tasks' = stopped.tasks
           /\ cache_file' = save_to_pickle(vm_zone_map, now)
           /\ app' = [app EXCEPT !.pc = "stopped",
                                 !.log = @ \o stopped.log \o <<"flush">>]
    /\ obs' = NoObservations
    /\ UNCHANGED <<vm_zone_map, vm_cache, last_update, now, refresh, scheduled>>
    /\ UNCHANGED <<logVars, histVars, modeVars, sseVars, nameVars, sanVars, execVars>>

LifeNext ==
    \/ A_Startup
    \/ T_Run
    \/ T_Wake
    \/ T_Wake30
    \/ U_ZonesExec
    \/ U_ZonesCommunicate
    \/ U_ScanExec
    \/ U_ScanCommunicate
    \/ T_Cancelled
    \/ A_Shutdown
    \/ Tick

SpecLifecycle == LifeInit /\ [][LifeNext]_vars

\* the snapshot lifespan found at startup existed and was younger than the
\* configured max age
SnapshotYoung ==
    /\ app.snapshot # NoFile
    /\ app.started_at - app.snapshot.timestamp < MaxAgeHalfHours

\* initialize has returned
Initialized == app.pc \in {"forced_refresh", "serving", "stopped"}

\* the update_cache coroutines awaited by `by`
AwaitedBy(by) == SelectSeq(refresh, LAMBDA r : r.owner.by = by)

\* C18: on initialize the snapshot is loaded only if it exists and is younger
\* than the configured max age; otherwise update_cache is awaited to its
\* return before initialize returns. Until that step is done no refresh loop
\* exists, and once initialize has returned exactly one loop has been
\* started, after the load or the refresh.
C18_InitializeLoadsOrRefreshesThenStartsOneLoop ==
    /\ app.pc = "start" => tasks = <<>> /\ refresh_task = 0 /\ app.log = <<>>
    /\ app.pc = "init_refresh" =>
          /\ ~SnapshotYoung
          /\ Len(AwaitedBy("initialize")) = 1
          /\ tasks = <<>>
          /\ refresh_task = 0
          /\ app.log = <<>>
    /\ Initialized =>
          /\ Len(tasks) = 1
          /\ AwaitedBy("initialize") = <<>>
          /\ SubSeq(app.log, 1, 2) = IF SnapshotYoung
                                     THEN <<"loaded", "loop_started">>
                                     ELSE <<"refreshed", "loop_started">>

\* a stale snapshot was found, the refresh was awaited, the loop started and
\* the server is ready
C18_Witness ==
    /\ app.pc = "serving"
    /\ app.snapshot # NoFile
    /\ ~SnapshotYoung
    /\ app.log = <<"refreshed", "loop_started">>
    /\ refresh_task = 1
    /\ vm_zone_map = DirFull

\* a young snapshot was found and loaded, and the loop started
LoadedAndServing ==
    /\ app.pc = "serving"
    /\ SnapshotYoung
    /\ app.log = <<"loaded", "loop_started">>
    /\ vm_zone_map = DirFull


\* the awaits a _periodic_refresh task can be suspended at
LoopAwaits == {"sleep79", "update", "sleep30"}

\* C19: on shutdown the refresh loop is cancelled first and then the current
\* directory is written to the snapshot file: after shutdown refresh_task is
\* None, every loop has its cancellation requested, the last two things
\* lifespan did are the cancel and then the flush, and the file holds the
\* directory. A loop is cancelled by shutdown only, and a cancelled loop that
\* has left its await has logged the cancellation, has scheduled no restart
\* and no second loop exists.
C19_ShutdownCancelsThenFlushes ==
    /\ app.pc = "stopped" =>
          /\ refresh_task = 0
          /\ \A k \in DOMAIN tasks : tasks[k].cancel
          /\ Len(app.log) >= 2
          /\ SubSeq(app.log, Len(app.log) - 1, Len(app.log)) = <<"cancel", "flush">>
          /\ cache_file.kind = "pickle"
          /\ cache_file.vm_zone_map = vm_zone_map
    /\ \A k \in DOMAIN tasks :
          /\ tasks[k].cancel => app.pc = "stopped"
          /\ tasks[k].cancel /\ tasks[k].pc \notin LoopAwaits =>
                /\ tasks[k].pc = "cancelled"
                /\ tasks[k].logged = <<"Cache refresh task was cancelled">>
                /\ ~tasks[k].restart
                /\ Len(tasks) = 1
                /\ AwaitedBy("loop") = <<>>

\* the server was stopped with a full directory and the cancelled loop has
\* ended
C19_Witness ==
    /\ app.pc = "stopped"
    /\ Len(tasks) = 1
    /\ tasks[1].pc = "cancelled"
    /\ cache_file = save_to_pickle(DirFull, now)
    /\ vm_zone_map = DirFull

\* the server was stopped while the loop was refreshing: the file holds the
\* directory as the abandoned refresh left it
StoppedDuringRefresh ==
    /\ app.pc = "stopped"
    /\ tasks[1].pc = "update"
    /\ cache_file.vm_zone_map = <<>>


-----------------------------------------------------------------------------
(* The exit code of the command and the outcome, checked under Spec.       *)

\* the invocation has finished after its command was launched and has exited
AfterExit == pc = "done" /\ proc.state = "exited"

\* the invocation's terminal outcome is a success: a success event, or a
\* returned body
SuccessOutcome ==
    IF req.mode = "sse" THEN \E i \in TerminalEvents : events[i].event = "success"
    ELSE response.kind = "return"

\* the invocation's terminal outcome is an error: an error event, or a raised
\* HTTPException
ErrorOutcome ==
    IF req.mode = "sse" THEN \E i \in TerminalEvents : events[i].event = "error"
    ELSE response.kind = "raise"

\* the rows with a terminal status, and their statuses
TerminalRows == Rows({"completed", "failed", "error"})
TerminalStatuses == {audit[i].status : i \in TerminalRows}

\* the messages _sanitize_error can give
SanitizedMessages == {SanitizedText[raw] : raw \in RawTextSet}

OutputRead == req.mode = "sse" \/ req.operation = s_status

\* reading what the exited command wrote raised an exception: its output
\* (exit 0) could not be decoded or, in single-response mode, parsed as JSON,
\* or its error text (nonzero exit) could not be decoded
ReadRaised ==
    \/ proc.rc = 0 /\ proc.out = "garbled" /\ OutputRead
    \/ proc.rc = 0 /\ proc.out = "empty" /\ req.mode = "json"
    \/ proc.rc # 0 /\ proc.err = 0

Faulted ==
    \/ proc.state = "launch_failed"
    \/ proc.out = "garbled" /\ OutputRead
    \/ proc.out = "empty" /\ req.mode = "json"
    \/ proc.state = "exited" /\ proc.rc # 0 /\ proc.err = 0

JsonFaultReachable ==
    /\ pc = "done"
    /\ req.mode = "json"
    /\ proc.out = "empty"
    /\ response.status_code = 500


-----------------------------------------------------------------------------
(* The two delivery modes side by side: after a streamed invocation has    *)
(* finished, the same request is made again with format=json against the   *)
(* same directory, and the external tool behaves as it likes once more.    *)

\* the statuses of the audit rows, in the order written
AuditStatuses == [i \in DOMAIN audit |-> audit[i].status]

\* the class of the terminal outcome of a finished invocation
OutcomeClass ==
    IF SuccessOutcome THEN "success"
    ELSE IF OutcomeMessage.msg = "not_allowed" THEN "denial"
    ELSE IF OutcomeMessage.msg = "not_found_in_any_zone" THEN "not-found"
    ELSE "failure"

\* fastserver.handle_vm_operation, lines 121-138: the request of the finished
\* streamed invocation is made again with format=json; what the first
\* invocation did is kept
RunAgain ==
    /\ pc = "done"
    /\ ~first_run.done
    /\ req.mode = "sse"
    /\ first_run' = [done |-> TRUE, req |-> req, proc |-> proc,
                     statuses |-> AuditStatuses, calls |-> Len(extCalls),
                     class |-> OutcomeClass]
    /\ req' = [req EXCEPT !.mode = "json"]
    /\ pc' = "j_entry"
    /\ loc' = NoLocals
    /\ events' = <<>>
    /\ response' = NoResponse
    /\ audit' = <<>>
    /\ extCalls' = <<>>
    /\ proc' = NoProcess
    /\ UNCHANGED <<logVars, histVars, lifeVars, sseVars, nameVars, sanVars, cacheVars>>

ModesNext == Next \/ RunAgain

SpecModes == Init /\ [][ModesNext]_vars

\* the external tool behaved the same way for the streamed invocation (p) and
\* the single-response one (q), as far as both looked: the launch failed for
\* both; or it exited with the same code, error text and output for both; or
\* its output had bytes that cannot be decoded, at which the streamed
\* invocation stopped reading
SameToolBehaviour(p, q) ==
    \/ p.state = "none"
    \/ q.state = "none"
    \/ p.state = "launch_failed" /\ q.state = "launch_failed"
    \/ /\ p.state = "exited"
       /\ q.state = "exited"
       /\ p.rc = q.rc
       /\ p.err = q.err
       /\ p.out = q.out
    \/ /\ p.state = "running"
       /\ q.state = "exited"
       /\ p.out = "garbled"
       /\ q.out = "garbled"

\* both invocations have finished and the tool behaved the same way
BothModesDone ==
    /\ first_run.done
    /\ pc = "done"
    /\ SameToolBehaviour(first_run.proc, proc)

\* C23: for the same request, the same directory and the same behaviour of
\* the external tool, the two modes write the same sequence of audit
\* statuses, launch the same number of commands and end in the same class of
\* terminal outcome.
C23_SameStepsInBothModes ==
    BothModesDone =>
        /\ first_run.statuses = AuditStatuses
        /\ first_run.calls = Len(extCalls)
        /\ first_run.class = OutcomeClass

\* the same, for commands whose output is a record or lines that can be
\* decoded, and whose error text can be decoded
SameStepsWhenOutputReadable ==
    (BothModesDone /\ proc.out \notin {"empty", "garbled"}) =>
        /\ first_run.statuses = AuditStatuses
        /\ first_run.calls = Len(extCalls)
        /\ first_run.class = OutcomeClass


\* ---------------------------------------------------------------------------
\* The zone listing of a refresh and the static zone list
\* ---------------------------------------------------------------------------

\* ZoneManager.__init__, lines 24-27: the static zone list
fallback_zones ==
    <<"us-central1-a", "us-central1-b", "us-east1-b", "asia-east1-a",
      "asia-southeast1-a">>

\* ZoneManager.get_all_zones, lines 29-62: the zones of the listing when it
\* exited 0 with output, the static list otherwise; only VMScanner calls it
get_all_zones(returncode, zones, raised) ==
    IF raised THEN fallback_zones
    ELSE IF returncode = 0 /\ zones # <<>> THEN zones
    ELSE fallback_zones

\* a refresh of the directory has returned and its zone listing gave no zones:
\* it exited nonzero, printed nothing, or could not be launched
ListingFailed == obs.kind = "returned" /\ ~obs.listed

\* C24: a refresh whose zone listing failed (nonzero exit, empty output or
\* exception) does not give up: it scans the zones of the static zone list
C24_ZoneListingFailureFallsBack ==
    ListingFailed => obs.scanned = get_all_zones(1, <<>>, FALSE)

\* a refresh whose listing succeeded returned after scanning the listed zones
ListedAndScanned ==
    /\ obs.kind = "returned"
    /\ obs.listed
    /\ obs.scanned = CloudZones


-----------------------------------------------------------------------------
(* The lock of the directory, under SpecLifecycle.                         *)

\* directory state was written at least once
Written == lock_use.by # "none"

\* the writers that take the lock: VMCache.update, lines 309-313,
\* VMCache.load_from_disk, lines 298-300, and VMCache.update_vm_status, lines
\* 402-408
LockingWriters == {"update", "load_from_disk", "update_vm_status"}

\* C25: the directory state (the name-to-zone mapping and last_update) is
\* written only while the lock of the cache is held, by every writer (refresh,
\* snapshot load, update), and the external calls of a refresh are made while
\* the lock is not held
C25_DirectoryWrittenOnlyUnderLock ==
    /\ Written => lock_use.held
    /\ lock_use.call # "locked"

\* what the code does: update and load_from_disk write under the lock,
\* update_cache and _load_from_pickle write without it, and no external call
\* of a refresh is made under it
LockHeldByLockingWritersOnly ==
    /\ Written => (lock_use.held <=> lock_use.by \in LockingWriters)
    /\ lock_use.call # "locked"

\* a refresh has called out and has stored what it found
RefreshWroteAndCalled ==
    /\ lock_use.by = "update_cache"
    /\ lock_use.call = "unlocked"
    /\ vm_zone_map # <<>>


-----------------------------------------------------------------------------
(* The cooldown between refresh attempts, under SpecCache.                 *)

\* C26: every refresh attempt is separated from the next one by at least the
\* cooldown of 30 seconds, whatever triggered the two (the background timer,
\* a lookup that saw a stale directory, a lookup that missed) and whether or
\* not the earlier one failed
C26_RefreshAttemptsSeparatedByCooldown == ~attempts.close

\* a refresh scheduled by a lookup started within the cooldown of the attempt
\* before it
ScheduledAttemptClose ==
    /\ attempts.close
    /\ attempts.last = "task"
    /\ Len(refresh) = 1


\* lifespan forced a refresh right after the refresh of initialize
ForcedRefreshClose ==
    /\ attempts.close
    /\ attempts.last = "lifespan"


-----------------------------------------------------------------------------
(* The background loop under failures: SpecLoop.                           *)

\* how many _periodic_refresh tasks are made: one less is how many times the
\* loop fails
MaxTasks == 3

\* _periodic_refresh, lines 63-79 and 89: an exception other than the
\* cancellation is raised in the loop outside the inner try, and reaches the
\* handler of line 93
T_Raised ==
    \E k \in DOMAIN tasks :
        /\ Len(tasks) < MaxTasks
        /\ tasks[k].pc \in {"sleep79", "sleep30"}
        /\ ~tasks[k].cancel
        /\ tasks' = [tasks EXCEPT ![k] = periodic_refresh_except(@, "Exception")]
        /\ obs' = NoObservations
        /\ UNCHANGED <<refresh_task, app>>
        /\ UNCHANGED <<vm_zone_map, vm_cache, last_update, now, refresh, scheduled,
                       cache_file>>
        /\ UNCHANGED <<logVars, histVars, modeVars, sseVars, nameVars, sanVars, execVars>>

\* _restart_refresh_task, lines 98-103: the sleep of 60 seconds is over,
\* refresh_task is reset and start_refresh_task makes a new task; the event
\* loop of a stopped server runs no coroutine
R_Restart ==
    \E k \in DOMAIN tasks :
        /\ tasks[k].pc = "failed"
        /\ tasks[k].restart
        /\ app.pc # "stopped"
        /\ LET started == start_refresh_task(0, [tasks EXCEPT ![k].restart = FALSE])
           IN  /\ refresh_task' = started.refresh_task
               /\ tasks' = started.tasks
        /\ attempts' = [attempts EXCEPT !.cooled = TRUE]
        /\ obs' = NoObservations
        /\ UNCHANGED <<app, lock_use>>
        /\ UNCHANGED <<vm_zone_map, vm_cache, last_update, now, refresh, scheduled,
                       cache_file>>
        /\ UNCHANGED <<logVars, modeVars, sseVars, nameVars, sanVars, execVars>>

\* the sleeps of the loop are not timed in the model: the clock stands still
LoopNext ==
    \/ A_Startup
    \/ T_Run
    \/ T_Wake
    \/ T_Wake30
    \/ T_Raised
    \/ R_Restart
    \/ U_ZonesExec
    \/ U_ZonesCommunicate
    \/ U_ScanExec
    \/ U_ScanCommunicate
    \/ T_Cancelled
    \/ A_Shutdown

\* the event loop resumes every coroutine that can go on: a sleep ends, a
\* task that was created runs, a cancelled task is resumed; and every
\* external command of a refresh is launched or refused and, once launched,
\* exits. Failures of the loop and the shutdown of the server are not forced
LoopFairness ==
    /\ WF_vars(A_Startup)
    /\ WF_vars(T_Run)
    /\ WF_vars(T_Wake)
    /\ WF_vars(T_Wake30)
    /\ WF_vars(R_Restart)
    /\ WF_vars(U_ZonesExec)
    /\ WF_vars(U_ZonesCommunicate)
    /\ WF_vars(U_ScanExec)
    /\ WF_vars(U_ScanCommunicate)
    /\ WF_vars(T_Cancelled)

SpecLoop == LifeInit /\ [][LoopNext]_vars /\ LoopFairness

\* a _periodic_refresh task is awaiting update_cache
LoopAttempt == \E k \in DOMAIN tasks : tasks[k].pc = "update"

\* the server was shut down, which cancels the loop
LoopStopped == app.pc = "stopped"

-----------------------------------------------------------------------------
(* The audit file under concurrent writers: SpecLog.                       *)

\* how many log_operation calls are made on the monthly file
MaxWriters == 3

\* _ensure_csv_headers, line 42: the header row
HeaderRow == [kind |-> "header", call |-> 0]

\* log_operation, lines 58-66: the row of the i-th call; call 0 wrote the row
\* a file that exists at the start holds
RowOf(i) == [kind |-> "row", call |-> i]

\* the monthly file at the start: missing, or made by an earlier call
LogFiles ==
    {NoLogFile,
     [exists |-> TRUE, rows |-> <<HeaderRow, RowOf(0)>>,
      was |-> <<HeaderRow, RowOf(0)>>, overlap |-> FALSE]}

LogInit ==
    /\ log_file \in LogFiles
    /\ writers = <<>>
    /\ HistOff
    /\ ModeOff
    /\ LifeOff
    /\ SseOff
    /\ NameOff
    /\ SanOff
    /\ ExecOff
    /\ CacheOff

\* the calls that have not returned
InProgress == {i \in DOMAIN writers : writers[i].pc # "done"}

\* log_operation, lines 50-54: a call begins, in a thread or worker process
\* of its own; nothing in the code makes it wait for another call
L_Call ==
    /\ Len(writers) < MaxWriters
    /\ writers' = Append(writers, [pc |-> "exists"])
    /\ log_file' = [log_file EXCEPT !.overlap = @ \/ InProgress # {}]
    /\ UNCHANGED <<histVars, modeVars, lifeVars, sseVars, nameVars, sanVars, execVars, cacheVars>>

\* _ensure_csv_headers, line 44: os.path.exists(filepath)
L_Exists ==
    \E i \in DOMAIN writers :
        /\ writers[i].pc = "exists"
        /\ writers' = [writers EXCEPT ![i].pc = IF log_file.exists THEN "append"
                                                 ELSE "create"]
        /\ UNCHANGED log_file
        /\ UNCHANGED <<histVars, modeVars, lifeVars, sseVars, nameVars, sanVars, execVars, cacheVars>>

\* _ensure_csv_headers, line 46: open(filepath, 'w') makes the file or
\* empties the one that is there; the handle writes from offset 0
L_Create ==
    \E i \in DOMAIN writers :
        /\ writers[i].pc = "create"
        /\ writers' = [writers EXCEPT ![i].pc = "header"]
        /\ log_file' = [log_file EXCEPT !.exists = TRUE, !.rows = <<>>]
        /\ UNCHANGED <<histVars, modeVars, lifeVars, sseVars, nameVars, sanVars, execVars, cacheVars>>

\* the rows after text is written at offset 0 of a file that is not opened
\* for appending: the row at the start is written over
write_at_start(rows, row) ==
    IF rows = <<>> THEN <<row>> ELSE <<row>> \o Tail(rows)

\* _ensure_csv_headers, lines 46-48: the header reaches the file when the
\* with block closes it
L_Header ==
    \E i \in DOMAIN writers :
        /\ writers[i].pc = "header"
        /\ writers' = [writers EXCEPT ![i].pc = "append"]
        /\ log_file' = [log_file EXCEPT !.rows = write_at_start(@, HeaderRow)]
        /\ UNCHANGED <<histVars, modeVars, lifeVars, sseVars, nameVars, sanVars, execVars, cacheVars>>

\* the rows after a file opened with 'a' is written and closed
append_row(rows, row) == Append(rows, row)

\* log_operation, lines 56-69: open(log_path, 'a'), writerow, close; the row
\* reaches the end of the file in one write
L_Append ==
    \E i \in DOMAIN writers :
        /\ writers[i].pc = "append"
        /\ writers' = [writers EXCEPT ![i].pc = "done"]
        /\ log_file' = [log_file EXCEPT !.exists = TRUE,
                                        !.rows = append_row(@, RowOf(i))]
        /\ UNCHANGED <<histVars, modeVars, lifeVars, sseVars, nameVars, sanVars, execVars, cacheVars>>

LogNext ==
    \/ L_Call
    \/ L_Exists
    \/ L_Create
    \/ L_Header
    \/ L_Append

SpecLog == LogInit /\ [][LogNext]_vars

\* how many times row is in rows
Occurrences(rows, row) == Cardinality({j \in DOMAIN rows : rows[j] = row})

\* every call made so far has returned
AllReturned == writers # <<>> /\ InProgress = {}

\* the file has the header once, as its first row, the rows it began with
\* where they were, and one row for each call
WellFormed ==
    /\ log_file.exists
    /\ log_file.rows # <<>>
    /\ log_file.rows[1] = HeaderRow
    /\ Occurrences(log_file.rows, HeaderRow) = 1
    /\ Len(log_file.rows) >= Len(log_file.was)
    /\ SubSeq(log_file.rows, 1, Len(log_file.was)) = log_file.was
    /\ \A i \in DOMAIN writers : Occurrences(log_file.rows, RowOf(i)) = 1

\* C28: the audit append is safe for concurrent writers: under any
\* interleaving of log_operation calls on the same monthly file, the first
\* writes that create it included, the file ends with the header exactly once
\* as its first row and one row per call, and no row written earlier is
\* altered, truncated or lost
C28_ConcurrentAppendsKeepEveryRow == AllReturned => WellFormed

\* what the code gives: calls that run one after the other, as they do on the
\* single event loop of the server, leave the file well formed
SerialAppendsKeepEveryRow == (AllReturned /\ ~log_file.overlap) => WellFormed

\* every call was made one after the other and the file was created by the
\* first
SerialCallsReturned ==
    /\ AllReturned
    /\ ~log_file.overlap
    /\ Len(writers) = MaxWriters
    /\ log_file.was = <<>>

\* calls on a file that exists overlap and every row is kept
OverlappingAppendsKept ==
    /\ AllReturned
    /\ log_file.overlap
    /\ Len(writers) = MaxWriters
    /\ log_file.was # <<>>
    /\ WellFormed


-----------------------------------------------------------------------------
(* A describe without output, under Spec.                                  *)

\* the describe command of a status operation exited 0 and printed nothing
EmptyStatusOutput ==
    /\ AfterExit
    /\ req.operation = s_status
    /\ proc.rc = 0
    /\ proc.out = "empty"

\* C29: for the status operation, a describe command that exits 0 with an
\* output of zero usable fields (empty output) is a parse failure: the
\* invocation ends with an error outcome, not a success outcome, and still
\* writes a terminal audit row
C29_EmptyStatusOutputIsParseFailure ==
    EmptyStatusOutput =>
        /\ ErrorOutcome
        /\ ~SuccessOutcome
        /\ Cardinality(TerminalRows) = 1

\* what the code does: single-response mode fails in json.loads and writes
\* 'error'; streaming mode reports success with an empty status and writes
\* 'completed'
EmptyStatusOutputByMode ==
    EmptyStatusOutput =>
        /\ Cardinality(TerminalRows) = 1
        /\ IF req.mode = "json"
           THEN ErrorOutcome /\ ~SuccessOutcome /\ TerminalStatuses = {"error"}
           ELSE SuccessOutcome /\ ~ErrorOutcome /\ TerminalStatuses = {"completed"}

\* a streamed status whose describe printed nothing ended in success
StreamedEmptyStatus ==
    /\ EmptyStatusOutput
    /\ req.mode = "sse"
    /\ SuccessOutcome


-----------------------------------------------------------------------------
(* A subscriber that disconnects: SpecStream.                              *)

\* the positions at which execute_vm_operation is suspended: at a yield, or
\* at an await on the external command
StreamSuspended ==
    {"s_denied_yield", "s_nozone_yield", "s_last_yield", "s_status_info_yield",
     "s_status_communicate", "s_status_yield", "s_failure_yield",
     "s_exec_info_yield", "s_readline", "s_progress_yield", "s_success_yield",
     "s_exception_yield"}

\* stream_operation, lines 318-325: the client of the EventSourceResponse
\* goes away: the response stops iterating the generator, which is closed
\* where it is suspended; GeneratorExit and CancelledError are no Exception,
\* so the handler of lines 280-297 does not run, and nothing terminates the
\* external command
S_Disconnect ==
    /\ pc \in StreamSuspended
    /\ pc' = "closed"
    /\ UNCHANGED <<req, loc, events, response, audit, extCalls, proc>>
    /\ UNCHANGED <<logVars, histVars, modeVars, lifeVars, sseVars, nameVars, sanVars, cacheVars>>

StreamNext ==
    \/ Next
    \/ S_Disconnect

SpecStream == Init /\ [][StreamNext]_vars

\* the external command was terminated by the program: the code has no call
\* of terminate or kill, so no step gives this state
CommandCancelled == proc.state = "terminated"

\* the subscriber went away after the row 'started' was written
DisconnectedAfterStarted == pc = "closed" /\ Rows({"started"}) # {}

\* C30: in streaming mode a subscriber that disconnects at any point after
\* the row 'started' was written (while the command runs, or right after an
\* event was delivered) only stops receiving events: the command already
\* launched is not cancelled, and the invocation still writes exactly one
\* terminal audit row
C30_DisconnectStillWritesTerminalRow ==
    DisconnectedAfterStarted =>
        /\ ~CommandCancelled
        /\ Cardinality(TerminalRows) = 1

\* what the code does: a disconnected invocation has its terminal row only if
\* the row had been written before the generator was closed, which is so at
\* the last yields of a status operation only; the command is left as it was
DisconnectKeepsRowsWritten ==
    DisconnectedAfterStarted =>
        /\ ~CommandCancelled
        /\ Cardinality(TerminalRows) <= 1
        /\ TerminalRows # {} => req.operation = s_status /\ proc.rc = 0

\* the subscriber went away while the command of a stop was running: the
\* command is still running and there is no terminal row
DisconnectedWhileRunning ==
    /\ pc = "closed"
    /\ req.operation = s_stop
    /\ proc.state = "running"
    /\ TerminalRows = {}

\* the subscriber went away right after the success event was delivered
DisconnectedAfterSuccessEvent ==
    /\ pc = "closed"
    /\ events # <<>>
    /\ events[Len(events)].event = "success"
    /\ proc.state = "exited"
    /\ TerminalRows = {}


-----------------------------------------------------------------------------
(* The order of the executor's steps, under Spec.                          *)

\* the invocation has launched an external command
Launched == extCalls # <<>>

\* the command was launched after the authorization check passed, with a zone
\* that is known, and after the row 'started' was written
LaunchedInOrder ==
    Launched =>
        /\ is_vm_allowed_for_operation(loc.real_vmname, req.operation)
        /\ Rows({"denied"}) = {}
        /\ ~Falsy(loc.zone)
        /\ \A i \in DOMAIN extCalls : extCalls[i].zone = loc.zone
        /\ Rows({"started"}) # {}
        /\ \A i \in TerminalRows : \E j \in Rows({"started"}) : j < i

\* C31 as stated: in both modes the command is launched only after the
\* authorization check passed, a zone is known and the row 'started' was
\* written, and the terminal row is written only after the process has exited
C31_StepsInFixedOrder ==
    /\ LaunchedInOrder
    /\ TerminalRows # {} => proc.state = "exited"

\* C31, amended: in both modes the command is launched only after the
\* authorization check passed, a zone is known and the row 'started' was
\* written; the terminal rows 'completed' and 'failed' are written only after
\* the process has exited, and the terminal row 'error' is written after a
\* fault, which may be a command that could not be launched or one that is
\* still running when a line of its output cannot be decoded
C31_StepsInFixedOrderFaultsApart ==
    /\ LaunchedInOrder
    /\ Rows({"completed", "failed"}) # {} => proc.state = "exited"
    /\ Rows({"error"}) # {} =>
          /\ Faulted
          /\ proc.state \in {"launch_failed", "running", "exited"}

\* a streamed start with the zone taken from the directory, ended with
\* 'completed' after the command exited
C31_Witness ==
    /\ pc = "done"
    /\ req.mode = "sse"
    /\ req.operation = s_start
    /\ Falsy(req.zone)
    /\ Launched
    /\ proc.state = "exited"
    /\ Len(audit) = 2
    /\ audit[1].status = "started"
    /\ audit[2].status = "completed"

\* the row 'error' of a streamed invocation whose command is still running
ErrorRowWhileRunning ==
    /\ pc = "done"
    /\ Rows({"error"}) # {}
    /\ proc.state = "running"


-----------------------------------------------------------------------------
(* The three rules of a lookup, under SpecLookup.                          *)

\* the keys of the directory that contain the name or are contained in it
PartialKeys(d, name) ==
    {i \in DOMAIN d : IsSubstring(name, d[i].k) \/ IsSubstring(d[i].k, name)}

\* the answer of the three rules for a name without a suffix: the zone of the
\* key that is the name; else the zone of the key that is the lowercased
\* name; else the zone of the first key that matches by substring; else, and
\* for the empty name, not found
RulesInOrder(d, name) ==
    IF name = <<>> THEN None
    ELSE IF DictHas(d, name) THEN DictGet(d, name)
    ELSE IF DictHas(d, Lower(name)) THEN DictGet(d, Lower(name))
    ELSE IF PartialKeys(d, name) # {}
         THEN d[CHOOSE i \in PartialKeys(d, name) :
                    \A j \in PartialKeys(d, name) : i <= j].v
    ELSE None

\* C32: a lookup applies its three rules in order: a name that is itself a
\* key gets the zone of that key whatever other keys exist; the match on the
\* lowercased name is used only when there is no exact key; the substring
\* match only when neither exists; a name whose domain suffix was stripped
\* looks up like the bare name, and an empty name is not found
C32_LookupRulesInOrder ==
    LookedUp => obs.zone = RulesInOrder(vm_zone_map, SplitFirst(obs.vm_name))

\* what the code does: the same, except that a name that is only a suffix is
\* not taken for the empty name: the empty string is part of every key, and
\* the first key of the directory answers
LookupRulesInOrderButForBareSuffix ==
    LookedUp =>
        IF obs.vm_name # <<>> /\ SplitFirst(obs.vm_name) = <<>>
        THEN obs.zone = IF vm_zone_map = <<>> THEN None ELSE vm_zone_map[1].v
        ELSE obs.zone = RulesInOrder(vm_zone_map, SplitFirst(obs.vm_name))

\* a lookup of a name with a suffix by the rule of the lowercased name
SuffixedLookupByLowercase ==
    /\ LookedUp
    /\ obs.vm_name = s_VM1_ibi
    /\ ~DictHas(vm_zone_map, s_VM1)
    /\ obs.zone = "us-east4-a"

\* a lookup of a name that is only a suffix got the zone of the first key
BareSuffixAnswered ==
    /\ LookedUp
    /\ obs.vm_name = s_dot_ibi
    /\ obs.zone # None


-----------------------------------------------------------------------------
(* C33: a zone whose instance listing fails, under SpecCache.  update_cache *)
(* skips a zone whose listing exits nonzero (lines 190-192); a listing that *)
(* cannot be launched raises out of the loop into the except branch of line *)
(* 230.                                                                     *)

\* the VMs of the zones whose listing printed instances are in the mapping,
\* under the zone that listed them
FoundVmsInstalled ==
    \A n \in DOMAIN obs.exits :
        obs.exits[n] = "found" =>
            \A m \in DOMAIN InstancesIn(obs.scanned[n]) :
                LET vm == InstancesIn(obs.scanned[n])[m]
                IN  /\ DictHas(vm_zone_map, vm)
                    /\ DictGet(vm_zone_map, vm) = obs.scanned[n]

\* C33: the failure of one zone's instance listing does not abort the
\* refresh: a refresh that obtained the zone list scans every zone of it, and
\* when it returns the VMs found in the zones that succeeded are in the
\* mapping.
C33_ZoneFailureDoesNotAbort ==
    (Returned /\ obs.listed) =>
        /\ obs.scanned = CloudZones
        /\ FoundVmsInstalled

\* what holds of every refresh: a zone whose listing exited nonzero is
\* followed by the scan of the next zone or by the end of the list, and the
\* VMs of the zones that succeeded are in the mapping at the return
NonzeroExitDoesNotAbort ==
    /\ (Returned /\ obs.listed) => FoundVmsInstalled
    /\ \A i \in DOMAIN refresh :
          (refresh[i].exits # <<>>
              /\ refresh[i].exits[Len(refresh[i].exits)] = "failed") =>
                  /\ refresh[i].pc \in {"scan_exec", "scan_communicate"}
                  /\ refresh[i].zones # <<>>

\* the first zone's listing exited nonzero, the second was scanned and its VM
\* is in the mapping
FailedZoneSkipped ==
    /\ Returned
    /\ obs.exits = <<"failed", "found">>
    /\ obs.scanned = CloudZones
    /\ DictHas(vm_zone_map, s_guedfocnlq03)

\* the first zone was scanned and the listing of the second could not be
\* launched: the refresh returned without scanning it
LaunchFailureAborted ==
    /\ Returned
    /\ obs.listed
    /\ obs.exits = <<"found">>
    /\ obs.scanned = <<"us-east4-a">>


-----------------------------------------------------------------------------
(* C34: how the records of the directory of VM records change, under       *)
(* SpecScanner: VMCache.update replaces the directory with what a sweep    *)
(* built, VMCache.update_vm_status assigns one field of one record.        *)

\* the step is a sweep that replaced the whole directory with what it built
ReplacedBySweep ==
    /\ obs'.kind = "sweep"
    /\ obs'.updated
    /\ vm_cache' = obs'.found

\* the step changed fields of a record that stays in the directory
RecordChangedInPlace ==
    \E i \in DOMAIN vm_cache :
        /\ DictHas(vm_cache', vm_cache[i].k)
        /\ DictGet(vm_cache', vm_cache[i].k) # vm_cache[i].v

\* C34: a VM record is produced only by a refresh sweep and is never partly
\* updated: whenever the directory changes, and whenever a record of it
\* changes, the step is a sweep that replaced the whole directory.
C34_RecordsReplacedNeverPatched ==
    [][(vm_cache' # vm_cache \/ RecordChangedInPlace) => ReplacedBySweep]_vars

\* what the code does: a step that changes the directory is a sweep that
\* replaced it or an update_vm_status that changed the status of the one
\* record it names and nothing else
RecordsReplacedOrStatusPatched ==
    [][vm_cache' # vm_cache =>
          \/ ReplacedBySweep
          \/ /\ obs'.kind = "status"
             /\ obs'.result
             /\ DOMAIN vm_cache' = DOMAIN vm_cache
             /\ \A i \in DOMAIN vm_cache :
                   /\ vm_cache'[i].k = vm_cache[i].k
                   /\ vm_cache'[i].v.zone = vm_cache[i].v.zone
                   /\ vm_cache'[i].v.project = vm_cache[i].v.project
                   /\ vm_cache[i].k # obs'.vm_name => vm_cache'[i] = vm_cache[i]
                   /\ vm_cache[i].k = obs'.vm_name =>
                          vm_cache'[i].v.status = obs'.status]_vars

\* update_vm_status has changed the status of a record a sweep produced
StatusPatched ==
    /\ obs.kind = "status"
    /\ obs.result
    /\ vm_cache # obs.before
    /\ DictGet(vm_cache, obs.vm_name).status = "TERMINATED"


-----------------------------------------------------------------------------
(* C35: how many refreshes run and are scheduled at once, under SpecCache. *)
(* get_vm_zone schedules update_cache with asyncio.create_task at line 340 *)
(* (stale) and again at line 374 (miss); neither looks at a refresh that   *)
(* runs or is scheduled already, and update_cache, lines 144-147, starts   *)
(* without looking either.                                                 *)

\* C35: at most one refresh of the directory is in progress at any time, no
\* refresh is scheduled to start while one is in progress, and a single
\* lookup schedules at most one refresh.
C35_AtMostOneRefresh ==
    /\ Len(refresh) <= 1
    /\ Len(refresh) = 1 => scheduled = 0
    /\ LookedUp => obs.scheduled <= 1

\* what the code does: a lookup schedules up to two refreshes, and refreshes
\* are scheduled while one is in progress, up to the bound of the model
RefreshesScheduledFreely ==
    /\ Len(refresh) <= MaxRunning
    /\ scheduled <= MaxScheduled
    /\ LookedUp => obs.scheduled <= 2

\* one lookup has scheduled two refreshes
LookupScheduledTwo == LookedUp /\ obs.scheduled = 2 /\ scheduled >= 2

\* a refresh is at an await and a lookup has scheduled another, which starts
\* when the event loop runs it
RefreshScheduledDuringRefresh ==
    /\ Len(refresh) = 1
    /\ refresh[1].pc \in {"zones_communicate", "scan_communicate"}
    /\ LookedUp
    /\ obs.scheduled >= 1
    /\ scheduled >= 1


-----------------------------------------------------------------------------
(* C36: the time a loaded snapshot gives to the data, under SpecSnapshot.  *)
(* The persisting instance holds a mapping a refresh completed at          *)
(* last_update; _save_to_pickle, line 137, stamps the file with            *)
(* datetime.now(), and _load_from_pickle, line 127, takes that stamp as    *)
(* last_update.                                                            *)

\* a fresh instance has loaded the mapping the persisting instance holds
\* from the snapshot file written by _save_to_pickle
LoadedPickle ==
    /\ obs.kind = "loaded"
    /\ obs.by = "pickle"
    /\ obs.got.ok
    /\ obs.got.vm_zone_map = vm_zone_map

\* C36: a snapshot never makes data look fresher than it is: the last_update
\* an instance takes from a loaded snapshot is not later than the completion
\* time of the refresh that produced the loaded mapping.
C36_SnapshotNeverFresherThanData ==
    LoadedPickle => obs.got.last_update <= last_update

\* what the code does: the loaded last_update is the time of the flush, which
\* is at or after the refresh and less than an hour before the load
LoadedStampIsFlushTime ==
    LoadedPickle =>
        /\ obs.got.last_update = cache_file.timestamp
        /\ obs.got.last_update >= last_update
        /\ now - obs.got.last_update < PickleMaxAgeHalfHours

\* the snapshot written by save_to_disk carries the last_update of the
\* instance that wrote it
DiskSnapshotKeepsLastUpdate ==
    (obs.kind = "loaded" /\ obs.by = "disk" /\ obs.got.ok) =>
        obs.got.last_update = last_update

\* a mapping refreshed at one time, flushed later and loaded: the loaded
\* instance dates the data later than the refresh
LoadedFresherThanRefresh ==
    /\ LoadedPickle
    /\ last_update # DatetimeMin
    /\ vm_zone_map # <<>>
    /\ obs.got.last_update > last_update


-----------------------------------------------------------------------------
(* C37: the background loop around stop_refresh_task: SpecStop.            *)
(* stop_refresh_task, lines 105-110, cancels the task refresh_task names   *)
(* and resets the field. A _restart_refresh_task made at line 96 is a task *)
(* of its own, kept in no field: nothing cancels it. lifespan goes on      *)
(* after stop_refresh_task (the flush, its return, the shutdown handshake  *)
(* of the server), and any other caller leaves the event loop running, so  *)
(* the sleep of line 100 can end after the stop.                           *)

\* _restart_refresh_task, lines 100-103, when its sleep ends after
\* stop_refresh_task was called: refresh_task is reset and
\* start_refresh_task makes a new task
R_RestartAfterStop ==
    \E k \in DOMAIN tasks :
        /\ tasks[k].pc = "failed"
        /\ tasks[k].restart
        /\ app.pc = "stopped"
        /\ LET started == start_refresh_task(0, [tasks EXCEPT ![k].restart = FALSE])
           IN  /\ refresh_task' = started.refresh_task
               /\ tasks' = started.tasks
        /\ app' = [app EXCEPT !.log = @ \o <<"restarted">>]
        /\ attempts' = [attempts EXCEPT !.cooled = TRUE]
        /\ obs' = NoObservations
        /\ UNCHANGED lock_use
        /\ UNCHANGED <<vm_zone_map, vm_cache, last_update, now, refresh, scheduled,
                       cache_file>>
        /\ UNCHANGED <<logVars, modeVars, sseVars, nameVars, sanVars, execVars>>

StopNext == LoopNext \/ R_RestartAfterStop

SpecStop == LifeInit /\ [][StopNext]_vars

\* the _periodic_refresh task k has not finished
LoopAlive(k) == tasks[k].pc \in {"created", "sleep79", "update", "sleep30"}

\* the task k goes on looping: it has not finished and no cancellation of it
\* is requested
LoopRuns(k) == LoopAlive(k) /\ ~tasks[k].cancel

\* stop_refresh_task has been called (lifespan, line 57, is its only caller)
StopCalled == app.pc = "stopped"

\* C37: after stop_refresh_task has been called no background refresh loop
\* runs and none is started again, whatever a pending _restart_refresh_task
\* does; and at no time are two background refresh loops alive at once.
C37_NoLoopAfterStop ==
    /\ StopCalled => /\ refresh_task = 0
                     /\ \A k \in DOMAIN tasks : ~LoopRuns(k)
    /\ Cardinality({k \in DOMAIN tasks : LoopAlive(k)}) <= 1

\* what the code does: never two loops alive, and a loop that runs after the
\* stop was started by a _restart_refresh_task that was pending at the stop
LoopAfterStopOnlyByPendingRestart ==
    /\ Cardinality({k \in DOMAIN tasks : LoopAlive(k)}) <= 1
    /\ (StopCalled /\ (refresh_task # 0 \/ \E k \in DOMAIN tasks : LoopRuns(k))) =>
           \E n \in DOMAIN app.log : app.log[n] = "restarted"
    /\ (StopCalled /\ \A k \in DOMAIN tasks : ~tasks[k].restart
                   /\ \A n \in DOMAIN app.log : app.log[n] # "restarted") =>
           \A k \in DOMAIN tasks : ~LoopRuns(k)

\* a loop started after the stop is awaiting update_cache
RefreshAfterStop ==
    /\ StopCalled
    /\ refresh_task # 0
    /\ \E k \in DOMAIN tasks : LoopRuns(k) /\ tasks[k].pc = "update"

\* the stop cancelled a running loop and no restart was pending: the loop
\* ends in its cancellation handler and none runs
StoppedForGood ==
    /\ StopCalled
    /\ refresh_task = 0
    /\ \E k \in DOMAIN tasks : tasks[k].pc = "cancelled"
    /\ \A k \in DOMAIN tasks : ~LoopAlive(k)


-----------------------------------------------------------------------------
(* C38: the streaming executor and its external command as two processes   *)
(* joined by pipes: SpecPipe.  execute_vm_operation creates the command    *)
(* with stdout=PIPE and stderr=PIPE (lines 227-232), reads standard output *)
(* line by line to its end (235-239), waits for the exit (242) and reads   *)
(* the error stream only then, on a nonzero exit (259).  What the command  *)
(* writes to its error stream stays in the pipe and in the reader's buffer *)
(* until then; both are bounded, and a write to a full pipe blocks.        *)

\* how many units of output the command writes to its error stream at most
MaxErr == 3
\* how many units the error pipe and the buffer of its reader hold together
ErrPipeCapacity == 2
\* how many lines the standard-output pipe holds
OutPipeCapacity == 1

\* the command just launched, about to write lines_out lines to its standard
\* output and units_err units to its error stream, in any order
PipedRunning(lines_out, units_err) ==
    [state |-> "running", rc |-> -1, err |-> 0, lines |-> 0, out |-> "unread",
     out_left |-> lines_out, err_left |-> units_err, err_total |-> units_err,
     out_buf |-> 0, err_buf |-> 0]

\* the process is one of SpecPipe: its pipes are modelled
CommandPiped == "err_total" \in DOMAIN proc

\* execute_vm_operation, lines 227-232: the command is launched with both
\* streams piped, or create_subprocess_exec raises
S_PipeLaunch ==
    /\ pc = "s_exec_info_yield"
    /\ \E launched \in BOOLEAN, lines_out \in 0..MaxLines, units_err \in 0..MaxErr :
          IF launched
          THEN /\ extCalls' = extCalls \o
                       get_gcloud_command(req.operation, loc.real_vmname, loc.zone)
               /\ proc' = PipedRunning(lines_out, units_err)
               /\ pc' = "s_readline"
               /\ UNCHANGED events
          ELSE /\ lines_out = 0
               /\ units_err = 0
               /\ proc' = LaunchFailed
               /\ StreamRaise(raw_launch)
               /\ UNCHANGED extCalls
    /\ UNCHANGED <<req, loc, response, audit>>
    /\ UNCHANGED <<logVars, histVars, modeVars, lifeVars, sseVars, nameVars, sanVars, cacheVars>>

\* the command writes a line to its standard output; the write blocks while
\* the pipe is full
C_WriteOut ==
    /\ CommandPiped
    /\ proc.state = "running"
    /\ proc.out_left > 0
    /\ proc.out_buf < OutPipeCapacity
    /\ proc' = [proc EXCEPT !.out_left = @ - 1, !.out_buf = @ + 1]
    /\ UNCHANGED <<req, pc, loc, events, response, audit, extCalls>>
    /\ UNCHANGED <<logVars, histVars, modeVars, lifeVars, sseVars, nameVars, sanVars, cacheVars>>

\* the command writes a unit to its error stream; the write blocks while the
\* pipe and the reader's buffer are full, and nothing is taken out of them
\* before line 259
C_WriteErr ==
    /\ CommandPiped
    /\ proc.state = "running"
    /\ proc.err_left > 0
    /\ proc.err_buf < ErrPipeCapacity
    /\ proc' = [proc EXCEPT !.err_left = @ - 1, !.err_buf = @ + 1]
    /\ UNCHANGED <<req, pc, loc, events, response, audit, extCalls>>
    /\ UNCHANGED <<logVars, histVars, modeVars, lifeVars, sseVars, nameVars, sanVars, cacheVars>>

\* the command has written all its output and exits, which closes both
\* streams; a zero exit leaves no error text to report
C_Exit ==
    /\ CommandPiped
    /\ proc.state = "running"
    /\ proc.out_left = 0
    /\ proc.err_left = 0
    /\ \E rc \in {0, 1}, error \in ErrorOutputs :
          /\ rc = 0 => error = 0
          /\ proc' = [proc EXCEPT !.state = "exited", !.rc = rc, !.err = error]
    /\ UNCHANGED <<req, pc, loc, events, response, audit, extCalls>>
    /\ UNCHANGED <<logVars, histVars, modeVars, lifeVars, sseVars, nameVars, sanVars, cacheVars>>

\* execute_vm_operation, lines 235-239: readline returns a line the command
\* wrote, which is decoded and forwarded
S_PipeReadLine ==
    /\ pc = "s_readline"
    /\ CommandPiped
    /\ proc.out_buf > 0
    /\ \E decodable \in BOOLEAN :
          /\ proc' = [proc EXCEPT !.out_buf = @ - 1,
                                  !.lines = @ + 1,
                                  !.out = IF decodable THEN @ ELSE "garbled"]
          /\ IF decodable
             THEN /\ events' = Append(events, format_sse_message("progress",
                                   MsgProgress(proc.lines + 1)))
                  /\ pc' = "s_progress_yield"
             ELSE StreamRaise(raw_decode)
    /\ UNCHANGED <<req, loc, response, audit, extCalls>>
    /\ UNCHANGED <<logVars, histVars, modeVars, lifeVars, sseVars, nameVars, sanVars, cacheVars>>

\* execute_vm_operation, lines 236-268: readline returns the end of standard
\* output, which the exit of the command gives; wait returns, and on a
\* nonzero exit the error stream is read to its end
S_PipeEof ==
    /\ pc = "s_readline"
    /\ CommandPiped
    /\ proc.state = "exited"
    /\ proc.out_buf = 0
    /\ proc' = [proc EXCEPT !.err_buf = IF proc.rc = 0 THEN @ ELSE 0]
    /\ IF proc.rc = 0
       THEN /\ events' = Append(events, format_sse_message("success",
                             MsgCompleted(req.operation, loc.real_vmname,
                                          loc.vanity_vmname)))
            /\ pc' = "s_success_yield"
       ELSE IF proc.err = 0
            THEN StreamRaise(raw_decode)
            ELSE /\ events' = Append(events, stream_failure_event(RawTexts[proc.err]))
                 /\ pc' = "s_failure_yield"
    /\ UNCHANGED <<req, loc, response, audit, extCalls>>
    /\ UNCHANGED <<logVars, histVars, modeVars, lifeVars, sseVars, nameVars, sanVars, cacheVars>>

PipeNext ==
    \/ execute_vm_operation
    \/ S_Begin
    \/ S_DeniedLog
    \/ S_NoZoneLog
    \/ S_Return
    \/ S_StatusLaunch
    \/ S_StatusResult
    \/ S_StatusSuccess
    \/ S_FailureLog
    \/ S_PipeLaunch
    \/ C_WriteOut
    \/ C_WriteErr
    \/ C_Exit
    \/ S_PipeReadLine
    \/ S_ProgressResume
    \/ S_PipeEof
    \/ S_SuccessLog
    \/ S_ExceptionLog

\* the event loop resumes the generator whenever it can go on (the
\* subscriber stays and takes every event) and the operating system runs the
\* command whenever it is not blocked on a write
PipeFairness == WF_vars(PipeNext)

SpecPipe == Init /\ [][PipeNext]_vars /\ PipeFairness

\* the invocation has sent its terminal event and written its terminal row
PipeTerminal ==
    /\ TerminalEvents # {}
    /\ Rows({"completed", "failed", "error"}) # {}

\* C38: in streaming mode a start, stop, suspend or resume whose command
\* exits when its output is consumed always reaches its terminal event and
\* its terminal audit row, whatever amounts the command writes to its
\* standard output and to its error stream.
C38_StreamingCommandAlwaysTerminates == CommandPiped ~> PipeTerminal

\* what the code does: the invocation ends when the command writes no more
\* to its error stream than the pipe and the reader's buffer hold
SmallErrorOutputTerminates ==
    (CommandPiped /\ proc.err_total <= ErrPipeCapacity) ~> PipeTerminal

\* the executor waits for a line or the end of standard output, the command
\* has written all its lines and waits for room in the error pipe
BlockedOnErrorPipe ==
    /\ CommandPiped
    /\ pc = "s_readline"
    /\ proc.state = "running"
    /\ proc.out_buf = 0
    /\ proc.out_left = 0
    /\ proc.err_left > 0
    /\ proc.err_buf = ErrPipeCapacity

\* neither the executor nor the command takes a step from there
BlockedForever == BlockedOnErrorPipe => ~ENABLED PipeNext

\* a command that filled the error pipe to its capacity and no more has
\* exited nonzero, and the invocation has ended with its 'failed' row
FullErrorPipeRead ==
    /\ CommandPiped
    /\ proc.err_total = ErrPipeCapacity
    /\ proc.lines = MaxLines
    /\ pc = "done"
    /\ Rows({"failed"}) # {}


-----------------------------------------------------------------------------
(* C39: when last_update advances, under SpecCache.  update_cache sets     *)
(* last_update at line 210, after the loop over the zones and before the   *)
(* test of line 213 for an empty mapping; the returns of lines 166 and 173 *)
(* and the except branch of line 230 come without it.                      *)

\* C39: last_update advances only when a refresh has installed a non-empty
\* mapping: a refresh that fails or finds no VM leaves last_update as it
\* was.
C39_LastUpdateOnlyOnNonEmptyInstall ==
    [][last_update' # last_update =>
          /\ obs'.kind = "returned"
          /\ obs'.stored
          /\ vm_zone_map' # <<>>]_vars

\* what the code does: last_update is set to the time of the return by every
\* refresh that went through all the zones of the list, whatever it found,
\* and by no other
LastUpdateOnEveryFullScan ==
    [][/\ last_update' # last_update =>
              /\ obs'.kind = "returned"
              /\ obs'.scanned = CloudZones
              /\ last_update' = now
       /\ (obs'.kind = "returned" /\ obs'.scanned # CloudZones) =>
              last_update' = last_update]_vars

\* a refresh that found no VM has returned: the mapping is empty and the
\* directory is dated now, so it is not stale
EmptyDirectoryReportedFresh ==
    /\ Returned
    /\ ~obs.stored
    /\ obs.scanned = CloudZones
    /\ vm_zone_map = <<>>
    /\ last_update = now
    /\ now > 0
    /\ ~Stale

\* a refresh that failed before the end of its scan has returned with
\* last_update as old as before
FailedRefreshKeepsLastUpdate ==
    /\ Returned
    /\ obs.scanned # CloudZones
    /\ now > 0
    /\ last_update < now

\* VMCache.update, lines 309-313, called by a sweep that found nothing: the
\* empty directory is dated now
EmptySweepDatedNow ==
    /\ obs.kind = "sweep"
    /\ obs.updated
    /\ obs.found = <<>>
    /\ vm_cache = <<>>
    /\ last_update = now
    /\ now > 0


-----------------------------------------------------------------------------
(* C40: what the launched commands target, under Spec.  Both executors     *)
(* compute real_vmname once (lines 81 and 352), evaluate the authorization *)
(* check on it, pass it to every log_operation and to the command, and     *)
(* pass the zone of the row 'started' to the command.                      *)

\* the canonical name of the VM the invocation was made for
CanonicalName == map_vanity_to_hostname(req.vmname)

\* C40: every external command an invocation launches targets the canonical
\* VM name the authorization check was evaluated on, which allowed it, and
\* the zone written in the invocation's 'started' row; and that canonical
\* name is the vm_name of every audit row of the invocation.
C40_CommandTargetsAuthorizedNameAndZone ==
    Invoked =>
        /\ \A i \in DOMAIN extCalls :
              /\ extCalls[i].vmname = CanonicalName
              /\ is_vm_allowed_for_operation(CanonicalName, req.operation)
              /\ Rows({"started"}) # {}
              /\ \A j \in Rows({"started"}) : audit[j].zone = extCalls[i].zone
        /\ \A j \in DOMAIN audit : audit[j].vm_name = CanonicalName

\* an invocation made with a name that is not the canonical one and without
\* a zone has launched a start, stop, suspend or resume and has ended with
\* its terminal row
C40_Witness ==
    /\ pc = "done"
    /\ req.vmname # CanonicalName
    /\ Falsy(req.zone)
    /\ extCalls # <<>>
    /\ extCalls[1].verb # s_describe
    /\ extCalls[1].vmname = CanonicalName
    /\ Len(audit) = 2
    /\ audit[1].status = "started"
    /\ audit[1].zone = extCalls[1].zone

====
